---- MODULE Spec2Model ----
(***************************************************************************)
(* Device-lowering stage of Accera: barrier hoisting, device/host launcher *)
(* pairing, the three backend pipelines, the ROCm lowering of the fragment *)
(* ops and the addresses its loops compute (AcceraToGPUPass.cpp), and the  *)
(* GPU ops of the C++ printer (GpuDialectCppPrinter.cpp).                  *)
(*                                                                         *)
(* A region of IR is a sequence of op tokens.  A conditional is an "if"    *)
(* token, the ops of its body, and the matching "end" token, so nesting is *)
(* bracketing.  Every token has the fields t (op kind), a (its attribute:  *)
(* barrier scope, conditional kind, query axis, ...) and c (for a barrier  *)
(* made by rewriter.clone: the side of the conditional it was put on).     *)
(***************************************************************************)
EXTENDS Integers, Sequences, FiniteSets, TLC

VARIABLES
    kernel,     \* body of the gpu kernel, a sequence of op tokens
    kernel0,    \* the kernel body as it was handed over, before any rewrite
    blockSize,  \* the kernel's "blockSize" array attribute, <<>> when absent
    cloned,     \* SPIR-V pipeline: kernelModules, the bodies of the cloned modules
    funcs,      \* module symbol table: name -> host-side FuncOp
    gpufuncs,   \* gpu.module symbol table: name -> gpu::GPUFuncOp attributes
    rt,         \* what ResolveExecutionRuntime(module) yields, "" for nullopt
    req,        \* the runtime value handed to createAcceraToGPUPass
    pass,       \* the pipeline that value selected
    pc,         \* position of the pipeline in runOnOperation
    failed,     \* signalPassFailure was called
    last,       \* the last pattern application: pattern, op position, result
    pin,        \* printer: the GPU op handed to printOp and its context
    os,         \* printer: what was written to the output stream
    gpuModuleOps, \* printer: _gpuModuleOps, the runtime each gpu.module resolves to
    runtimes,   \* printer: the runtimes set in the printer state
    created,    \* the ops the last fragment pattern created before it returned
    lane,       \* a lane running an emitted fragment loop: its coordinates and
                \* the warp size, leading dimension and access map of the op
    trace       \* what the iterations of that loop have addressed so far

irVars == <<kernel, kernel0, blockSize, cloned>>

symVars == <<funcs, gpufuncs>>

passVars == <<rt, req, pass, pc, failed>>

printVars == <<pin, os, gpuModuleOps, runtimes>>

laneVars == <<lane, trace>>

vars == <<kernel, kernel0, blockSize, cloned, funcs, gpufuncs, rt, req, pass,
          pc, failed, last, pin, os, gpuModuleOps, runtimes,
          created, lane, trace>>

----------------------------------------------------------------------------
(* Bounds *)

\* longest kernel body, in op tokens, explored by the hoisting specification
MaxOps == 5

\* longest function body, in ops before the terminator, explored by the
\* pairing specification
MaxBody == 2

\* most ops, conditional apart, of a kernel handed to the pipelines
MaxPipeOps == 2

----------------------------------------------------------------------------
(* IR tokens *)

Scopes == {"Block", "Warp", "Threadfence"}

IfKinds == {"affine.if", "scf.if"}

Tok(t, a, c) == [t |-> t, a |-> a, c |-> c]

BarrierOp(scope) == Tok("barrier", scope, "")

IfOp(kind) == Tok("if", kind, "")

EndOp == Tok("end", "", "")

OtherOp == Tok("op", "", "")

HoistTokens ==
    {BarrierOp(s) : s \in Scopes} \cup {IfOp(k) : k \in IfKinds} \cup {EndOp, OtherOp}

BoundedSeq(S, n) == UNION {[1..k -> S] : k \in 0..n}

Min(S) == CHOOSE x \in S : \A y \in S : x <= y

\* number of tokens of kind t among m[lo..hi]
Count(m, lo, hi, t) == Cardinality({k \in lo..hi : m[k].t = t})

\* every "end" closes an open "if" and every "if" is closed
WellFormed(m) ==
    /\ \A k \in 1..Len(m) : Count(m, 1, k, "if") >= Count(m, 1, k, "end")
    /\ Count(m, 1, Len(m), "if") = Count(m, 1, Len(m), "end")

\* position of the "end" that closes the conditional opened at p
RegionEnd(m, p) ==
    Min({q \in (p + 1)..Len(m) :
            m[q].t = "end" /\ Count(m, p, q, "if") = Count(m, p, q, "end")})

\* the conditionals that enclose position i
Ancestors(m, i) ==
    {p \in 1..(i - 1) : m[p].t = "if" /\ RegionEnd(m, p) > i}

Barriers(m) == {i \in 1..Len(m) : m[i].t = "barrier"}

BarriersInIf(m) == {i \in Barriers(m) : Ancestors(m, i) # {}}

NoBarrierInIf(m) == BarriersInIf(m) = {}

----------------------------------------------------------------------------
(* ConditionalBarrierHoistingPattern *)

\* 0 stands for nullptr
GetHighestAncestorOfType(m, i, kind) ==
    LET S == {p \in Ancestors(m, i) : m[p].a = kind}
    IN  IF S = {} THEN 0 ELSE Min(S)

\* Operation::isAncestor: a encloses b, or is b
isAncestor(m, a, b) == a <= b /\ RegionEnd(m, b) <= RegionEnd(m, a)

GetAncestorIfOp(m, i) ==
    LET parentAffineIfOp == GetHighestAncestorOfType(m, i, "affine.if")
        parentSCFIfOp == GetHighestAncestorOfType(m, i, "scf.if")
    IN  IF parentAffineIfOp # 0 /\ parentSCFIfOp # 0
        THEN IF isAncestor(m, parentAffineIfOp, parentSCFIfOp)
             THEN parentAffineIfOp
             ELSE parentSCFIfOp
        ELSE IF parentAffineIfOp = 0 THEN parentSCFIfOp ELSE parentAffineIfOp

\* rewriter.clone of the barrier at i, put on the given side of the conditional
Clone(m, i, side) == Tok(m[i].t, m[i].a, side)

\* a slip: the erase is done for every barrier, hoisted or not
HoistRewriteEraseAlways(m, i) ==
    LET ancestorIfOp == GetAncestorIfOp(m, i)
        q == RegionEnd(m, ancestorIfOp)
    IN  IF ancestorIfOp # 0
        THEN SubSeq(m, 1, ancestorIfOp - 1)
                \o <<Clone(m, i, "before")>>
                \o SubSeq(m, ancestorIfOp, i - 1)
                \o SubSeq(m, i + 1, q)
                \o <<Clone(m, i, "after")>>
                \o SubSeq(m, q + 1, Len(m))
        ELSE SubSeq(m, 1, i - 1) \o SubSeq(m, i + 1, Len(m))

\* a slip: one hoist empties the conditional of all its barriers
HoistRewriteEraseAll(m, i) ==
    LET ancestorIfOp == GetAncestorIfOp(m, i)
        q == RegionEnd(m, ancestorIfOp)
        keep == SelectSeq(SubSeq(m, ancestorIfOp, q), LAMBDA tok : tok.t # "barrier")
    IN  IF ancestorIfOp # 0
        THEN SubSeq(m, 1, ancestorIfOp - 1)
                \o <<Clone(m, i, "before")>>
                \o keep
                \o <<Clone(m, i, "after")>>
                \o SubSeq(m, q + 1, Len(m))
        ELSE m

\* a slip: the barrier is cloned before the conditional only
HoistRewriteOneClone(m, i) ==
    LET ancestorIfOp == GetAncestorIfOp(m, i)
        q == RegionEnd(m, ancestorIfOp)
    IN  IF ancestorIfOp # 0
        THEN SubSeq(m, 1, ancestorIfOp - 1)
                \o <<Clone(m, i, "before")>>
                \o SubSeq(m, ancestorIfOp, i - 1)
                \o SubSeq(m, i + 1, q)
                \o SubSeq(m, q + 1, Len(m))
        ELSE m

\* the module after matchAndRewrite on the barrier at position i
HoistRewrite(m, i) ==
    LET ancestorIfOp == GetAncestorIfOp(m, i)
        q == RegionEnd(m, ancestorIfOp)
    IN  IF ancestorIfOp # 0
        THEN SubSeq(m, 1, ancestorIfOp - 1)
                \o <<Clone(m, i, "before")>>
                \o SubSeq(m, ancestorIfOp, i - 1)
                \o SubSeq(m, i + 1, q)
                \o <<Clone(m, i, "after")>>
                \o SubSeq(m, q + 1, Len(m))
        ELSE m

Applied(pat, i, res) == [pat |-> pat, at |-> i, result |-> res]

NoRewrite == Applied("", 0, "")

\* one application of the pattern by the greedy driver; it reports success
\* whether or not the barrier had a conditional ancestor
HoistBarrier(i) ==
    /\ i \in Barriers(kernel)
    /\ kernel' = HoistRewrite(kernel, i)
    /\ last' = Applied("ConditionalBarrierHoistingPattern", i, "success")
    /\ UNCHANGED <<kernel0, blockSize, cloned>>

----------------------------------------------------------------------------
(* CreateDeviceFuncLauncherPairPattern *)

\* A host-side FuncOp: hdr and raw are ir::HeaderDeclAttrName and
\* ir::RawPointerAPIAttrName, rt its exec_runtime attribute ("" when absent),
\* decl tells a declaration (no block), body lists the ops before the terminator.
Func(hdr, raw, decl, body) ==
    [hdr |-> hdr, raw |-> raw, rt |-> "", decl |-> decl, body |-> body]

CallOp(callee) == Tok("call", callee, "")

LaunchFuncOp(kernelName) == Tok("launch", kernelName, "")

\* attributes of a gpu::GPUFuncOp that pairing has not touched
UnpairedKernel == [rt |-> "", target |-> "", hdr |-> FALSE, raw |-> FALSE]

Suffix == "__gpu__"

\* the _target each pipeline constructs the pattern with
PairTarget(p) == IF p = "ROCDL" THEN "ROCM" ELSE "CUDA"

Outcome(res, fs, gs) == [result |-> res, funcs |-> fs, gpufuncs |-> gs]

\* front() of a function without a block, or stepping the reverse iterator
\* past the only op of the block: the build may crash or read on
Undefined(fs, gs) == {Outcome("crash", fs, gs), Outcome("failure", fs, gs)}

\* a slip: the kernel is renamed but the launch op keeps the old reference
PairRewriteStaleLaunch(fs, gs, target, name) ==
    LET op == fs[name]
        callee == op.body[1].a
        calleeBody == fs[callee].body
        launchOp == calleeBody[Len(calleeBody)]
        gpuTargetFuncName == name \o Suffix
    IN  IF ~op.hdr \/ ~op.raw THEN {Outcome("failure", fs, gs)}
        ELSE IF Len(op.body) # 1 THEN {Outcome("failure", fs, gs)}
        ELSE IF op.body[1].t # "call" THEN {Outcome("failure", fs, gs)}
        ELSE IF callee \notin DOMAIN fs THEN {Outcome("failure", fs, gs)}
        ELSE IF fs[callee].decl \/ calleeBody = <<>> THEN Undefined(fs, gs)
        ELSE IF launchOp.t # "launch" THEN {Outcome("failure", fs, gs)}
        ELSE IF launchOp.a \notin DOMAIN gs THEN {Outcome("failure", fs, gs)}
        ELSE IF gpuTargetFuncName \in DOMAIN gs THEN {Outcome("failure", fs, gs)}
        ELSE {Outcome("success",
                [n \in DOMAIN fs |->
                    IF n = name THEN [fs[n] EXCEPT !.rt = target] ELSE fs[n]],
                [n \in (DOMAIN gs \ {launchOp.a}) \cup {gpuTargetFuncName} |->
                    IF n = gpuTargetFuncName
                    THEN [gs[launchOp.a] EXCEPT !.rt = target, !.target = "GPU",
                                                !.hdr = TRUE, !.raw = TRUE]
                    ELSE gs[n]])}

\* matchAndRewrite on the FuncOp called name: the possible results, each with
\* the symbol tables it leaves
PairRewrite(fs, gs, target, name) ==
    LET op == fs[name]
        callee == op.body[1].a
        calleeBody == fs[callee].body
        launchOp == calleeBody[Len(calleeBody)]
        gpuTargetFuncName == name \o Suffix
    IN  IF ~op.hdr \/ ~op.raw THEN {Outcome("failure", fs, gs)}
        ELSE IF Len(op.body) # 1 THEN {Outcome("failure", fs, gs)}
        ELSE IF op.body[1].t # "call" THEN {Outcome("failure", fs, gs)}
        ELSE IF callee \notin DOMAIN fs THEN {Outcome("failure", fs, gs)}
        ELSE IF fs[callee].decl \/ calleeBody = <<>> THEN Undefined(fs, gs)
        ELSE IF launchOp.t # "launch" THEN {Outcome("failure", fs, gs)}
        ELSE IF launchOp.a \notin DOMAIN gs THEN {Outcome("failure", fs, gs)}
        ELSE IF gpuTargetFuncName \in DOMAIN gs THEN {Outcome("failure", fs, gs)}
        ELSE {Outcome("success",
                [n \in DOMAIN fs |->
                    IF n = callee
                    THEN [fs[n] EXCEPT !.body[Len(calleeBody)] =
                                            LaunchFuncOp(gpuTargetFuncName)]
                    ELSE IF n = name THEN [fs[n] EXCEPT !.rt = target]
                    ELSE fs[n]],
                [n \in (DOMAIN gs \ {launchOp.a}) \cup {gpuTargetFuncName} |->
                    IF n = gpuTargetFuncName
                    THEN [gs[launchOp.a] EXCEPT !.rt = target, !.target = "GPU",
                                                !.hdr = TRUE, !.raw = TRUE]
                    ELSE gs[n]])}

Crashed == last.result = "crash"

\* one application of the pairing pattern by the greedy driver
PairFunc(name) ==
    /\ ~Crashed
    /\ name \in DOMAIN funcs
    /\ \E o \in PairRewrite(funcs, gpufuncs, PairTarget(pass), name) :
          /\ funcs' = o.funcs
          /\ gpufuncs' = o.gpufuncs
          /\ last' = Applied("CreateDeviceFuncLauncherPairPattern", name, o.result)

----------------------------------------------------------------------------
(* Conversion patterns *)

\* the illegal ops of the kernel besides the barrier
BlockDimOp(dim) == Tok("gpu.block_dim", dim, "")

\* a is what isValidShape() of the op's fragment type yields
MFMALoadOp(shape) == Tok("mfma.load", shape, "")

MFMAStoreOp(shape) == Tok("mfma.store", shape, "")

MFMAConstantOp(shape) == Tok("mfma.constant", shape, "")

\* a is the element type of the A input vector
MFMAComputeOp(inputType) == Tok("mfma.compute", inputType, "")

ConstantIndexOp(val) == [t |-> "constant", a |-> "", c |-> "", v |-> val]

Lowered(name, attr) == Tok(name, attr, "")

dimIndexToInteger(dim) ==
    CASE dim = "x" -> 0
      [] dim = "y" -> 1
      [] dim = "z" -> 2
      [] OTHER -> -1

Match(out) == [ok |-> TRUE, out |-> out]

NoMatch == [ok |-> FALSE, out |-> <<>>]

\* ResolveBlockDimPattern on a gpu.block_dim of a kernel whose blockSize is bs
ResolveBlockDim(tok, bs) ==
    IF bs = <<>> \/ dimIndexToInteger(tok.a) = -1
    THEN NoMatch
    ELSE Match(<<ConstantIndexOp(bs[dimIndexToInteger(tok.a) + 1])>>)

\* a slip: the warp scope is lowered like the block scope
ValueBarrierToGPUBarrierWarpAsBlock(tok) ==
    CASE tok.a = "Block" -> Match(<<Lowered("gpu.barrier", "")>>)
      [] tok.a = "Warp" -> Match(<<Lowered("gpu.barrier", "")>>)
      [] tok.a = "Threadfence" -> Match(<<Lowered("llvm.fence", "seq_cst agent")>>)
      [] OTHER -> NoMatch

\* ValueBarrierToGPUBarrierConversion (ROCm-class and CUDA-class pipelines)
ValueBarrierToGPUBarrier(tok) ==
    CASE tok.a = "Block" -> Match(<<Lowered("gpu.barrier", "")>>)
      [] tok.a = "Threadfence" -> Match(<<Lowered("llvm.fence", "seq_cst agent")>>)
      [] OTHER -> NoMatch

\* ValueBarrierToSPIRVBarrierConversion (SPIR-V-class pipeline)
ValueBarrierToSPIRVBarrier(tok) ==
    CASE tok.a = "Block" ->
            Match(<<Lowered("spv.ControlBarrier", "Workgroup Workgroup AcquireRelease")>>)
      [] tok.a = "Warp" ->
            Match(<<Lowered("spv.ControlBarrier",
                            "Subgroup Subgroup AcquireRelease|SubgroupMemory")>>)
      [] OTHER -> NoMatch

\* the ops the fragment load and store patterns put before their loop; the
\* gpu.block_dim they create is illegal and has to be resolved in its turn
AddressOperands(bs) ==
    LET dim == ResolveBlockDim(BlockDimOp("x"), bs)
    IN  IF dim.ok
        THEN Match(<<ConstantIndexOp(0), Lowered("gpu.thread_id", "x"),
                     Lowered("gpu.thread_id", "y")>> \o dim.out)
        ELSE NoMatch

\* the patterns of populateAcceraToROCDLPatterns, by root op
LowerROCDL(tok, bs) ==
    CASE tok.t = "barrier" -> ValueBarrierToGPUBarrier(tok)
      [] tok.t = "gpu.block_dim" -> ResolveBlockDim(tok, bs)
      [] tok.t \in {"mfma.load", "mfma.store"} ->
            IF tok.a = "valid" /\ AddressOperands(bs).ok
            THEN Match(AddressOperands(bs).out \o <<Lowered("affine.for", tok.t)>>)
            ELSE NoMatch
      [] tok.t = "mfma.constant" ->
            IF tok.a = "valid" THEN Match(<<Lowered("vector.broadcast", "")>>) ELSE NoMatch
      [] tok.t = "mfma.compute" ->
            IF tok.a \in {"f16", "f32"}
            THEN Match(<<Lowered("affine.for", tok.t)>>)
            ELSE NoMatch
      [] OTHER -> Match(<<tok>>)

\* the patterns of populateAcceraToNVVMPatterns, by root op; the store
\* pattern reports success and leaves its root op where it is
LowerNVVM(tok, bs) ==
    CASE tok.t = "barrier" -> ValueBarrierToGPUBarrier(tok)
      [] tok.t = "gpu.block_dim" -> ResolveBlockDim(tok, bs)
      [] tok.t = "mfma.load" -> Match(<<>>)
      [] tok.t = "mfma.constant" -> Match(<<>>)
      [] tok.t = "mfma.compute" -> Match(<<Lowered("gpu.subgroup_mma_compute", "")>>)
      [] tok.t = "mfma.store" -> Match(<<tok>>)
      [] OTHER -> Match(<<tok>>)

\* populateAcceraToSPIRVPatterns and the GPU, SCF and Standard to SPIR-V
\* patterns of MLIR, by root op; nothing lowers the fragment ops or affine.if
LowerSPIRV(tok, bs) ==
    CASE tok.t = "barrier" -> ValueBarrierToSPIRVBarrier(tok)
      [] tok.t = "gpu.block_dim" -> Match(<<Lowered("spv.constant", "WorkgroupSize")>>)
      [] tok.t = "if" /\ tok.a = "scf.if" -> Match(<<Lowered("if", "spv.mlir.selection")>>)
      [] tok.t = "end" -> Match(<<tok>>)
      [] tok.t = "op" -> Match(<<Lowered("op", "spv")>>)
      [] OTHER -> NoMatch

Lower(p, tok, bs) ==
    CASE p = "ROCDL" -> LowerROCDL(tok, bs)
      [] p = "NVVM" -> LowerNVVM(tok, bs)
      [] p = "SPIRV" -> LowerSPIRV(tok, bs)

RECURSIVE Flatten(_)
Flatten(ss) == IF ss = <<>> THEN <<>> ELSE Head(ss) \o Flatten(Tail(ss))

\* applyFullConversion: every op is legalized, or nothing is changed
FullConversion(p, m, bs) ==
    IF \A i \in 1..Len(m) : Lower(p, m[i], bs).ok
    THEN Match(Flatten([i \in 1..Len(m) |-> Lower(p, m[i], bs).out]))
    ELSE [ok |-> FALSE, out |-> m]

\* a pattern that reports success without replacing or updating its root op
\* trips the driver's assertion in a build with assertions
RootLeftInPlace(p, m) == p = "NVVM" /\ \E i \in 1..Len(m) : m[i].t = "mfma.store"

----------------------------------------------------------------------------
(* Pass selection and the three pipelines *)

\* the enumerators of the execution runtime
Runtimes == {"NONE", "CUDA", "ROCM", "VULKAN", "OPENMP", "DEFAULT"}

\* a value of the enumeration type that is none of its enumerators
Unrecognized == "UNRECOGNIZED"

\* a slip: the [[fallthrough]] of OPENMP lands on the ROCm-class pipeline
createAcceraToGPUPassOpenMP(runtime) ==
    CASE runtime \in {"DEFAULT", "ROCM", "OPENMP"} -> "ROCDL"
      [] runtime = "CUDA" -> "NVVM"
      [] runtime = "VULKAN" -> "SPIRV"
      [] OTHER -> "null"

createAcceraToGPUPass(runtime) ==
    CASE runtime \in {"DEFAULT", "ROCM"} -> "ROCDL"
      [] runtime = "CUDA" -> "NVVM"
      [] runtime = "VULKAN" -> "SPIRV"
      [] OTHER -> "null"

\* a slip: a module without runtime counts as a module of the pass's runtime
hasRuntimeTargetOrNone(Runtime, resolved) ==
    (IF resolved = "" THEN Runtime ELSE resolved) = Runtime

\* hasRuntimeTarget<Runtime>(module); resolved is "" for std::nullopt
hasRuntimeTarget(Runtime, resolved) ==
    (IF resolved = "" THEN "NONE" ELSE resolved) = Runtime

\* the runtime each pass tests the module for
PassRuntime(p) ==
    CASE p = "ROCDL" -> "ROCM"
      [] p = "NVVM" -> "CUDA"
      [] p = "SPIRV" -> "VULKAN"

CreatePass(runtime) ==
    /\ pc = "create"
    /\ req' = runtime
    /\ pass' = createAcceraToGPUPass(runtime)
    /\ pc' = IF createAcceraToGPUPass(runtime) = "null" THEN "skipped" ELSE "run"
    /\ UNCHANGED <<irVars, symVars, rt, failed, last, printVars, created, laneVars>>

\* entry of runOnOperation
ResolveRuntime ==
    /\ pc = "run"
    /\ pc' = IF hasRuntimeTarget(PassRuntime(pass), rt) THEN "hoist" ELSE "done"
    /\ UNCHANGED <<irVars, symVars, rt, req, pass, failed, last, printVars, created, laneVars>>

\* applyPatternsAndFoldGreedily with populateGPUSimplificationPatterns
HoistStep(i) ==
    /\ pc = "hoist"
    /\ HoistBarrier(i)
    /\ UNCHANGED <<symVars, passVars, printVars, created, laneVars>>

\* a slip: the pairing step is left out of every pipeline
HoistEndSkipPairing ==
    /\ pc = "hoist"
    /\ NoBarrierInIf(kernel)
    /\ pc' = "convert"
    /\ last' = Applied("applyPatternsAndFoldGreedily", 0,
                       IF Barriers(kernel) = {} THEN "success" ELSE "failure")
    /\ UNCHANGED <<irVars, symVars, rt, req, pass, failed, printVars, created, laneVars>>

\* a slip: the result of the greedy driver is not dropped but signalled
HoistEndSignals ==
    /\ pc = "hoist"
    /\ NoBarrierInIf(kernel)
    /\ failed' = (Barriers(kernel) # {})
    /\ pc' = IF Barriers(kernel) # {} THEN "done"
             ELSE IF pass = "SPIRV" THEN "convert" ELSE "pair"
    /\ last' = Applied("applyPatternsAndFoldGreedily", 0,
                       IF Barriers(kernel) = {} THEN "success" ELSE "failure")
    /\ UNCHANGED <<irVars, symVars, rt, req, pass, printVars, created, laneVars>>

\* the driver returns once it has been over every barrier; it reports
\* non-convergence when patterns still report success, and the pass drops
\* the report
HoistEnd ==
    /\ pc = "hoist"
    /\ NoBarrierInIf(kernel)
    /\ pc' = IF pass = "SPIRV" THEN "convert" ELSE "pair"
    /\ last' = Applied("applyPatternsAndFoldGreedily", 0,
                       IF Barriers(kernel) = {} THEN "success" ELSE "failure")
    /\ UNCHANGED <<irVars, symVars, rt, req, pass, failed, printVars, created, laneVars>>

\* applyPatternsAndFoldGreedily with CreateDeviceFuncLauncherPairPattern
PairStep(name) ==
    /\ pc = "pair"
    /\ PairFunc(name)
    /\ UNCHANGED <<irVars, passVars, printVars, created, laneVars>>

CanPair ==
    \E name \in DOMAIN funcs :
        \E o \in PairRewrite(funcs, gpufuncs, PairTarget(pass), name) :
            o.result = "success"

PairEnd ==
    /\ pc = "pair"
    /\ ~Crashed
    /\ ~CanPair
    /\ pc' = "convert"
    /\ last' = Applied("applyPatternsAndFoldGreedily", 0, "success")
    /\ UNCHANGED <<irVars, symVars, rt, req, pass, failed, printVars, created, laneVars>>

\* applyFullConversion of the module, ROCm-class and CUDA-class pipelines
ConvertModule ==
    /\ pc = "convert"
    /\ pass \in {"ROCDL", "NVVM"}
    /\ LET r == FullConversion(pass, kernel, blockSize)
       IN  /\ kernel' = r.out
           /\ failed' = ~r.ok
           /\ last' = Applied("applyFullConversion", 0,
                              IF r.ok THEN "success" ELSE "failure")
    /\ pc' = "done"
    /\ UNCHANGED <<kernel0, blockSize, cloned, symVars, rt, req, pass, printVars, created, laneVars>>

\* the same in a build with assertions, when a pattern left its root in place
ConvertAbort ==
    /\ pc = "convert"
    /\ pass \in {"ROCDL", "NVVM"}
    /\ FullConversion(pass, kernel, blockSize).ok
    /\ RootLeftInPlace(pass, kernel)
    /\ pc' = "aborted"
    /\ last' = Applied("applyFullConversion", 0, "crash")
    /\ UNCHANGED <<irVars, symVars, rt, req, pass, failed, printVars, created, laneVars>>

\* the SPIR-V-class pipeline clones the kernel module and converts the clone
ConvertClones ==
    /\ pc = "convert"
    /\ pass = "SPIRV"
    /\ LET r == FullConversion(pass, kernel, blockSize)
       IN  /\ cloned' = <<r.out>>
           /\ failed' = ~r.ok
           /\ last' = Applied("applyFullConversion", 0,
                              IF r.ok THEN "success" ELSE "failure")
    /\ pc' = "done"
    /\ UNCHANGED <<kernel, kernel0, blockSize, symVars, rt, req, pass, printVars, created, laneVars>>

----------------------------------------------------------------------------
(* Specification of the hoisting rewrite alone, from any kernel body *)

NoSymbols == funcs = <<>> /\ gpufuncs = <<>>

NoPass ==
    /\ rt = "" /\ req = "" /\ pass = "" /\ pc = "" /\ failed = FALSE

NoPrinter == pin = <<>> /\ os = <<>> /\ gpuModuleOps = <<>> /\ runtimes = {}

HoistInit ==
    /\ created = <<>> /\ lane = <<>> /\ trace = <<>>
    /\ kernel \in {m \in BoundedSeq(HoistTokens, MaxOps) : WellFormed(m)}
    /\ kernel0 = kernel
    /\ blockSize = <<>>
    /\ cloned = <<>>
    /\ last = NoRewrite
    /\ NoSymbols /\ NoPass /\ NoPrinter

HoistNext ==
    \E i \in 1..(MaxOps * 3) :
        HoistBarrier(i) /\ UNCHANGED <<symVars, passVars, printVars, created, laneVars>>

SpecHoist == HoistInit /\ [][HoistNext]_vars

----------------------------------------------------------------------------
(* Specification of the pairing pattern alone: two host functions f and g,  *)
(* two launcher functions l and m, one kernel k in the gpu.module           *)

HostOps == {CallOp("l"), CallOp("m"), CallOp("x"), OtherOp}

LauncherOps == {LaunchFuncOp("k"), LaunchFuncOp("z"), OtherOp}

Launchers ==
    {Func(FALSE, FALSE, TRUE, <<>>)}
        \cup {Func(FALSE, FALSE, FALSE, b) : b \in BoundedSeq(LauncherOps, MaxBody)}

PairInit ==
    /\ created = <<>> /\ lane = <<>> /\ trace = <<>>
    /\ funcs \in
          {[n \in {"f", "g", "l", "m"} |->
                CASE n = "f" -> Func(hdr, raw, FALSE, bf)
                  [] n = "g" -> Func(TRUE, TRUE, FALSE, <<CallOp(cg)>>)
                  [] n = "l" -> fl
                  [] n = "m" -> Func(FALSE, FALSE, FALSE, <<LaunchFuncOp("k")>>)] :
             hdr \in BOOLEAN, raw \in BOOLEAN,
             bf \in BoundedSeq(HostOps, MaxBody),
             cg \in {"l", "m"},
             fl \in Launchers}
    /\ gpufuncs \in
          {[n \in D |-> UnpairedKernel] : D \in {{"k"}, {"k", "f" \o Suffix}}}
    /\ pass \in {"ROCDL", "NVVM"}
    /\ rt = "" /\ req = "" /\ pc = "" /\ failed = FALSE
    /\ kernel = <<>> /\ kernel0 = <<>> /\ blockSize = <<>> /\ cloned = <<>>
    /\ last = NoRewrite
    /\ NoPrinter

PairNext ==
    \E name \in {"f", "g", "l", "m"} :
        PairFunc(name) /\ UNCHANGED <<irVars, passVars, printVars, created, laneVars>>

SpecPair == PairInit /\ [][PairNext]_vars

----------------------------------------------------------------------------
(* Specification of pass selection followed by the selected pipeline.  The  *)
(* kernel is a run of ops, either bare or inside one conditional; the host  *)
(* side is a function f that calls the launcher l of kernel k.              *)

PipeOps ==
    {BarrierOp(s) : s \in Scopes}
        \cup {OtherOp, BlockDimOp("x"), BlockDimOp("w")}
        \cup {MFMALoadOp("valid"), MFMALoadOp("invalid"), MFMAStoreOp("valid"),
              MFMAConstantOp("valid"), MFMAComputeOp("f32"), MFMAComputeOp("i8")}

PipeKernels ==
    LET runs == BoundedSeq(PipeOps, MaxPipeOps)
    IN  runs \cup {<<IfOp(k)>> \o b \o <<EndOp>> : k \in IfKinds, b \in runs}

BlockSizes == {<<>>, <<64, 2, 1>>}

Init ==
    /\ created = <<>> /\ lane = <<>> /\ trace = <<>>
    /\ kernel \in PipeKernels
    /\ kernel0 = kernel
    /\ blockSize \in BlockSizes
    /\ cloned = <<>>
    /\ funcs \in
          {[n \in {"f", "l"} |->
                IF n = "f"
                THEN Func(hdr, TRUE, FALSE, <<CallOp("l")>>)
                ELSE Func(FALSE, FALSE, FALSE, <<LaunchFuncOp("k")>>)] :
             hdr \in BOOLEAN}
    /\ gpufuncs = [n \in {"k"} |-> UnpairedKernel]
    /\ rt \in Runtimes \cup {""}
    /\ req = ""
    /\ pass = ""
    /\ pc = "create"
    /\ failed = FALSE
    /\ last = NoRewrite
    /\ NoPrinter

Next ==
    \/ \E runtime \in Runtimes \cup {Unrecognized} : CreatePass(runtime)
    \/ ResolveRuntime
    \/ \E i \in 1..(MaxPipeOps + 3) : HoistStep(i)
    \/ HoistEnd
    \/ \E name \in {"f", "l"} : PairStep(name)
    \/ PairEnd
    \/ ConvertModule
    \/ ConvertAbort
    \/ ConvertClones

Spec == Init /\ [][Next]_vars

----------------------------------------------------------------------------
(* The GPU index queries of the C++ printer (GpuDialectCppPrinter.cpp) *)

QueryOps == {"gpu.grid_dim", "gpu.block_dim", "gpu.block_id", "gpu.thread_id"}

\* the function ops an op can be nested in
ParentOps == {"FuncOp", "GPUFuncOp"}

\* the op handed to printOp: its dimension attribute, the function op that
\* encloses it, that function's "gridSize" and "blockSize" array attributes
\* (<<>> when absent), and whether the printer state has the CUDA runtime
PrintedOp(op, dimension, parent, gridSize, bSize, cuda) ==
    [op |-> op, dimension |-> dimension, parent |-> parent,
     gridSize |-> gridSize, blockSize |-> bSize, cuda |-> cuda]

\* the bound of a size attribute on a dimension, as a set: empty for
\* llvm::None.  Only an enclosing FuncOp is looked at.
getDim(p, attr, dim) ==
    IF p.parent = "FuncOp"
    THEN IF attr = <<>>
         THEN {}
         ELSE IF dimIndexToInteger(dim) = -1
              THEN {}
              ELSE {attr[dimIndexToInteger(dim) + 1]}
    ELSE {}

getGridDim(p, dim) == getDim(p, p.gridSize, dim)

getBlockDim(p, dim) == getDim(p, p.blockSize, dim)

Value(c) == CHOOSE v \in c : TRUE

\* what printGPUIndexType writes: "const " and the index type of the printer
GPUIndexType == <<"const ", "index">>

\* the declaration every query prints: type, name (the prefix of the name
\* stands for the name), " = ", value
Declaration(varPrefix, value) ==
    GPUIndexType \o <<" ", varPrefix, " = ", value>>

Printed(res, out) ==
    /\ pc' = "printed"
    /\ os' = os \o out
    /\ last' = Applied("printOp", 0, res)
    /\ UNCHANGED <<irVars, symVars, rt, req, pass, failed, pin, gpuModuleOps, runtimes,
                 created, laneVars>>

\* emitError("non-cuda version is not supported yet")
NonCuda == Printed("failure", <<>>)

\* RETURN_IF_FAILED(printGPUIndexType()): the index type may fail to print
IndexTypeFailed == Printed("failure", <<"const ">>)

PrintBarrierOp ==
    /\ pc = "print" /\ pin.op = "gpu.barrier"
    /\ IF ~pin.cuda THEN NonCuda ELSE Printed("success", <<"__syncthreads()">>)

PrintGridDimOp ==
    /\ pc = "print" /\ pin.op = "gpu.grid_dim"
    /\ IF ~pin.cuda
       THEN NonCuda
       ELSE \/ IndexTypeFailed
            \/ LET c == getGridDim(pin, pin.dimension)
               IN  Printed("success",
                       Declaration("gridDim_" \o pin.dimension \o "_",
                           IF c # {} THEN ToString(Value(c))
                           ELSE "gridDim." \o pin.dimension))

PrintBlockDimOp ==
    /\ pc = "print" /\ pin.op = "gpu.block_dim"
    /\ IF ~pin.cuda
       THEN NonCuda
       ELSE \/ IndexTypeFailed
            \/ LET c == getBlockDim(pin, pin.dimension)
               IN  Printed("success",
                       Declaration("blockDim_" \o pin.dimension \o "_",
                           IF c # {} THEN ToString(Value(c))
                           ELSE "blockDim." \o pin.dimension))

PrintBlockIdOp ==
    /\ pc = "print" /\ pin.op = "gpu.block_id"
    /\ IF ~pin.cuda
       THEN NonCuda
       ELSE \/ IndexTypeFailed
            \/ LET c == getGridDim(pin, pin.dimension)
               IN  Printed("success",
                       Declaration("blockIdx_" \o pin.dimension \o "_",
                           IF c # {}
                           THEN "(blockIdx." \o pin.dimension \o "%"
                                    \o ToString(Value(c)) \o ")"
                           ELSE "blockIdx." \o pin.dimension))

PrintThreadIdOp ==
    /\ pc = "print" /\ pin.op = "gpu.thread_id"
    /\ IF ~pin.cuda
       THEN NonCuda
       ELSE \/ IndexTypeFailed
            \/ LET c == getBlockDim(pin, pin.dimension)
               IN  Printed("success",
                       Declaration("threadIdx_" \o pin.dimension \o "_",
                           IF c # {}
                           THEN "(threadIdx." \o pin.dimension \o "%"
                                    \o ToString(Value(c)) \o ")"
                           ELSE "threadIdx." \o pin.dimension))

\* a gpu.func handed to printOp: the number of its blocks
PrintedFunc(blocks, cuda) ==
    [op |-> "gpu.func", dimension |-> "", parent |-> "", gridSize |-> <<>>,
     blockSize |-> <<>>, cuda |-> cuda, blocks |-> blocks]

\* printOp(gpu::GPUFuncOp): more than one block is an error; the declaration
\* may fail to print, and so may the body
PrintGPUFuncOp ==
    /\ pc = "print" /\ pin.op = "gpu.func"
    /\ IF pin.blocks > 1
       THEN Printed("failure", <<>>)
       ELSE \/ Printed("failure", <<>>)
            \/ pin.blocks # 0 /\ Printed("failure", <<"declaration">>)
            \/ Printed("success",
                       <<"declaration">>
                       \o (IF pin.blocks # 0 THEN <<"body">> ELSE <<>>)
                       \o <<"\n\n">>)

\* printDialectOperation, once its handler has called printOp on the op: the
\* handler drops what printOp returned and sets *consumed, and the dispatcher
\* returns success()
PrintDialectOperation ==
    /\ pc = "printed"
    /\ pc' = "dispatched"
    /\ last' = Applied("printDialectOperation", 0, "success")
    /\ UNCHANGED <<irVars, symVars, rt, req, pass, failed, printVars, created,
                   laneVars>>

GridSizes == {<<>>, <<8, 4, 1>>}

PrintInit ==
    /\ created = <<>> /\ lane = <<>> /\ trace = <<>>
    /\ pin \in
          {PrintedOp(op, dimension, parent, gridSize, bSize, cuda) :
              op \in QueryOps, dimension \in {"x", "y", "z", "w"},
              parent \in ParentOps, gridSize \in GridSizes,
              bSize \in BlockSizes, cuda \in BOOLEAN}
          \cup {PrintedOp("gpu.barrier", "", parent, <<>>, <<>>, cuda) :
                  parent \in ParentOps, cuda \in BOOLEAN}
          \cup {PrintedFunc(blocks, cuda) : blocks \in 0..2, cuda \in BOOLEAN}
    /\ os = <<>>
    /\ gpuModuleOps = <<>>
    /\ runtimes = IF pin.cuda THEN {"CUDA"} ELSE {}
    /\ pc = "print"
    /\ last = NoRewrite
    /\ kernel = <<>> /\ kernel0 = <<>> /\ blockSize = <<>> /\ cloned = <<>>
    /\ NoSymbols
    /\ rt = "" /\ req = "" /\ pass = "" /\ failed = FALSE

PrintNext ==
    \/ PrintBarrierOp
    \/ PrintGridDimOp
    \/ PrintBlockDimOp
    \/ PrintBlockIdOp
    \/ PrintThreadIdOp
    \/ PrintGPUFuncOp
    \/ PrintDialectOperation

SpecPrint == PrintInit /\ [][PrintNext]_vars

----------------------------------------------------------------------------
(* Runtime resolution: the printer's runPrePrintingPasses over the gpu      *)
(* modules, next to the entry of the lowering pipelines                     *)

\* most gpu modules of one module
MaxModules == 3

\* PrinterState::setRuntime: the runtime is added to those already set
setRuntime(rts, r) == rts \cup {r}

Resolution(res, rts, n, err) == [result |-> res, runtimes |-> rts, at |-> n, err |-> err]

\* a slip: the ROCM case sets ROCM and breaks, without falling through to CUDA
RECURSIVE runPrePrintingPassesNoFallthrough(_, _, _)
runPrePrintingPassesNoFallthrough(mods, rts, n) ==
    IF n = Len(mods) THEN Resolution("success", rts, n, <<>>)
    ELSE LET execRuntime == mods[n + 1]
         IN  CASE execRuntime = "" ->
                    Resolution("failure", rts, n,
                               <<"Device functions must specify a runtime\n">>)
               [] execRuntime = "ROCM" ->
                    runPrePrintingPassesNoFallthrough(mods, setRuntime(rts, "ROCM"), n + 1)
               [] execRuntime = "CUDA" ->
                    runPrePrintingPassesNoFallthrough(mods, setRuntime(rts, "CUDA"), n + 1)
               [] OTHER ->
                    Resolution("failure", rts, n,
                               <<"Device functions runtime is unsupported\n">>)

\* the loop of runPrePrintingPasses from the gpu module after the n-th, with
\* rts set so far: result, runtimes set, modules resolved, text on llvm::errs
RECURSIVE runPrePrintingPasses(_, _, _)
runPrePrintingPasses(mods, rts, n) ==
    IF n = Len(mods) THEN Resolution("success", rts, n, <<>>)
    ELSE LET execRuntime == mods[n + 1]
         IN  CASE execRuntime = "" ->
                    Resolution("failure", rts, n,
                               <<"Device functions must specify a runtime\n">>)
               [] execRuntime = "ROCM" ->
                    runPrePrintingPasses(mods,
                        setRuntime(setRuntime(rts, "ROCM"), "CUDA"), n + 1)
               [] execRuntime = "CUDA" ->
                    runPrePrintingPasses(mods, setRuntime(rts, "CUDA"), n + 1)
               [] OTHER ->
                    Resolution("failure", rts, n,
                               <<"Device functions runtime is unsupported\n">>)

Resolved == last.pat = "runPrePrintingPasses"

RunPrePrintingPasses ==
    /\ ~Resolved
    /\ LET r == runPrePrintingPasses(gpuModuleOps, runtimes, 0)
       IN  /\ runtimes' = r.runtimes
           /\ os' = os \o r.err
           /\ last' = Applied("runPrePrintingPasses", r.at, r.result)
    /\ UNCHANGED <<irVars, symVars, passVars, pin, gpuModuleOps, created, laneVars>>

\* the pipeline has passed its runtime test and goes on to lower the module
Lowering == pc = "hoist"

ResolveInit ==
    /\ created = <<>> /\ lane = <<>> /\ trace = <<>>
    /\ gpuModuleOps \in BoundedSeq(Runtimes \cup {""}, MaxModules)
    /\ runtimes = {}
    /\ os = <<>>
    /\ pin = <<>>
    /\ rt \in Runtimes \cup {""}
    /\ req = "" /\ pass = "" /\ pc = "create" /\ failed = FALSE
    /\ kernel = <<>> /\ kernel0 = <<>> /\ blockSize = <<>> /\ cloned = <<>>
    /\ NoSymbols
    /\ last = NoRewrite

ResolveNext ==
    \/ \E runtime \in Runtimes : CreatePass(runtime)
    \/ ResolveRuntime
    \/ RunPrePrintingPasses

SpecResolve == ResolveInit /\ [][ResolveNext]_vars

----------------------------------------------------------------------------
(* The ROCm lowering of the fragment ops, op by op *)

\* largest thread tile, in elements
MaxTile == 8

\* MFMAMatrixType::Shape, and a shape type that is none of its four tiles
Shapes == {"T4x16x64", "T2x32x64", "T4x4x32", "T2x2x16"}

InvalidShape == "Invalid"

\* the operand roles, and a role string that is none of them
Operands == {"AOp", "BOp", "COp"}

OtherOperand == "DOp"

\* the fragment type of an op: shape type, operand role, element type,
\* elements per lane and number of sub-blocks
MFMAMatrixType(shape, operand, elementType, threadTileSize, numBlocks) ==
    [shape |-> shape, operand |-> operand, elementType |-> elementType,
     threadTileSize |-> threadTileSize, numBlocks |-> numBlocks]

\* the shape is one of the four tiles, and the sub-blocks divide the thread
\* tile into a positive number of elements
isValidShape(ty) ==
    /\ ty.shape \in Shapes
    /\ ty.threadTileSize % ty.numBlocks = 0
    /\ ty.threadTileSize \div ty.numBlocks > 0

\* a fragment op: vecType is the element type of the stored vector (store) or
\* of the A input vector (compute)
FragmentOp(t, ty, vecType) == [t |-> t, type |-> ty, vecType |-> vecType]

AffineForOp(lb, ub, step, init, body) ==
    [t |-> "affine.for", lb |-> lb, ub |-> ub, step |-> step, init |-> init,
     body |-> body]

\* what a pattern returned and the ops it had created by then
FragOutcome(res, ops) == [result |-> res, created |-> ops]

\* the symbols of the layout map: iteration, thread x, thread y, block dim x
MapOperands ==
    <<ConstantIndexOp(0), Lowered("gpu.thread_id", "x"),
      Lowered("gpu.thread_id", "y"), BlockDimOp("x")>>

\* the body of the load loop: the address from the composed map, the load,
\* the extension when the vector is f32 and the fragment f16
LoadBody(map, elementType, ty) ==
    <<Lowered("index_cast", "i32"), Lowered("affine.apply", map),
      Lowered("memref.load", ty.elementType)>>
    \o (IF elementType = "f32" /\ ty.elementType = "f16"
        THEN <<Lowered("fpext", "f32")>> ELSE <<>>)
    \o <<Lowered("vector.insertelement", elementType), Lowered("affine.yield", "")>>

LoadLoop(map, vecSize, elementType, ty) ==
    MapOperands
    \o <<Lowered("constant", elementType),
         Lowered("vector.broadcast", <<vecSize, elementType>>),
         AffineForOp(0, vecSize, 1, "vec", LoadBody(map, elementType, ty))>>

\* a slip: the shape is not tested
ValueMFMALoadOpToRocDLNoCheck(op) ==
    LET ty == op.type
        isC == ty.operand = "COp"
    IN  {FragOutcome("success",
            LoadLoop(ty.operand,
                     IF isC THEN ty.threadTileSize \div ty.numBlocks
                     ELSE ty.threadTileSize,
                     IF isC /\ ty.elementType = "f16" THEN "f32" ELSE ty.elementType,
                     ty))}

\* a slip: the operands of the address are created before the shape is tested
ValueMFMALoadOpToRocDLCheckLate(op) ==
    LET ty == op.type
    IN  IF ~isValidShape(ty) THEN {FragOutcome("failure", MapOperands)}
        ELSE {FragOutcome("success",
                 LoadLoop(ty.operand, ty.threadTileSize, ty.elementType, ty))}

\* ValueMFMALoadOpToRocDLConversion::matchAndRewrite.  For a role that is
\* none of A, B, C the layout map is the null AffineMap, and compose is
\* called on it: the build may crash, or go on with whatever it reads.
ValueMFMALoadOpToRocDL(op) ==
    LET ty == op.type
    IN  IF ~isValidShape(ty) THEN {FragOutcome("failure", <<>>)}
        ELSE IF ty.operand = "COp"
        THEN LET vecSize == ty.threadTileSize \div ty.numBlocks
                 elementType == IF ty.elementType = "f16" THEN "f32"
                                ELSE ty.elementType
             IN  {FragOutcome("success", LoadLoop("COp", vecSize, elementType, ty))}
        ELSE IF ty.operand \in {"AOp", "BOp"}
        THEN {FragOutcome("success",
                 LoadLoop(ty.operand, ty.threadTileSize, ty.elementType, ty))}
        ELSE {FragOutcome("crash", <<>>),
              FragOutcome("success",
                 LoadLoop("null", ty.threadTileSize, ty.elementType, ty))}

\* the body of the store loop: the address, the element, the truncation when
\* the vector is f32 and the fragment f16, the store of an element of type a
StoreBody(vecType, ty) ==
    <<Lowered("index_cast", "i32"), Lowered("affine.apply", "COp"),
      Lowered("vector.extractelement", vecType)>>
    \o (IF vecType = "f32" /\ ty.elementType = "f16"
        THEN <<Lowered("fptrunc", ty.elementType),
               Lowered("memref.store", ty.elementType)>>
        ELSE <<Lowered("memref.store", vecType)>>)

\* a slip: the element is stored as it is, whatever the fragment type
ValueMFMAStoreOpToRocDLNoTrunc(op) ==
    LET ty == op.type
    IN  IF ~isValidShape(ty) THEN {FragOutcome("failure", <<>>)}
        ELSE {FragOutcome("success",
                 MapOperands
                 \o <<AffineForOp(0, ty.threadTileSize \div ty.numBlocks, 1, "",
                         <<Lowered("index_cast", "i32"),
                           Lowered("affine.apply", "COp"),
                           Lowered("vector.extractelement", op.vecType),
                           Lowered("memref.store", op.vecType)>>)>>)}

\* ValueMFMAStoreOpToRocDLConversion::matchAndRewrite
ValueMFMAStoreOpToRocDL(op) ==
    LET ty == op.type
    IN  IF ~isValidShape(ty) THEN {FragOutcome("failure", <<>>)}
        ELSE {FragOutcome("success",
                 MapOperands
                 \o <<AffineForOp(0, ty.threadTileSize \div ty.numBlocks, 1, "",
                                  StoreBody(op.vecType, ty))>>)}

\* the compute intrinsic of a shape type and an input element type
Intrinsic(shape, inputType) ==
    CASE inputType = "f16" /\ shape = "T4x16x64" -> "mfma_f32_16x16x4f16"
      [] inputType = "f16" /\ shape = "T2x32x64" -> "mfma_f32_32x32x4f16"
      [] inputType = "f16" /\ shape = "T4x4x32" -> "mfma_f32_32x32x8f16"
      [] inputType = "f16" /\ shape = "T2x2x16" -> "mfma_f32_16x16x16f16"
      [] inputType = "f32" /\ shape = "T4x16x64" -> "mfma_f32_16x16x1f32"
      [] inputType = "f32" /\ shape = "T2x32x64" -> "mfma_f32_32x32x1f32"
      [] inputType = "f32" /\ shape = "T4x4x32" -> "mfma_f32_32x32x2f32"
      [] inputType = "f32" /\ shape = "T2x2x16" -> "mfma_f32_16x16x4f32"

\* cbsz, abid, blgp
ControlConstants ==
    <<Lowered("constant", "cbsz"), Lowered("constant", "abid"),
      Lowered("constant", "blgp")>>

\* f16: the inner loop that gathers passIncrements elements of A and of B
GatherAB(passIncrements) ==
    <<Lowered("constant", "f16"), Lowered("vector.broadcast", "vecA"),
      Lowered("vector.broadcast", "vecB"),
      AffineForOp(0, passIncrements, 1, "opA opB vecA vecB",
          <<Lowered("index_cast", "i32"), Lowered("addi", ""),
            Lowered("vector.extractelement", "opA"),
            Lowered("vector.insertelement", "vecA"),
            Lowered("vector.extractelement", "opB"),
            Lowered("vector.insertelement", "vecB"),
            Lowered("affine.yield", "opA opB vecA vecB")>>)>>

ExtractAB ==
    <<Lowered("vector.extractelement", "opA"),
      Lowered("vector.extractelement", "opB")>>

\* the intrinsic, its accumulator operand the loop's iteration argument,
\* and the yield of its result
Accumulate(shape, inputType) ==
    <<[t |-> "rocdl", a |-> Intrinsic(shape, inputType), acc |-> "matD"],
      Lowered("affine.yield", Intrinsic(shape, inputType))>>

\* a slip: every input type steps by one
ValueMFMAComputeToRocDLStepOne(op) ==
    LET inputType == op.vecType
        shape == op.type.shape
        head == <<Lowered("index_cast", "i32")>>
        loop(body) == ControlConstants
                        \o <<AffineForOp(0, op.type.threadTileSize, 1, "opC", body)>>
    IN  IF inputType = "f16"
        THEN IF shape \in Shapes
             THEN {FragOutcome("success",
                      loop(head \o GatherAB(4) \o Accumulate(shape, inputType)))}
             ELSE {FragOutcome("failure", loop(head \o GatherAB(4)))}
        ELSE IF inputType = "f32"
        THEN IF shape \in Shapes
             THEN {FragOutcome("success",
                      loop(head \o ExtractAB \o Accumulate(shape, inputType)))}
             ELSE {FragOutcome("failure", loop(head \o ExtractAB))}
        ELSE {FragOutcome("failure", loop(head))}

\* ValueMFMAComputeToRocDLConversion::matchAndRewrite, the operands being
\* vectors
ValueMFMAComputeToRocDL(op) ==
    LET inputType == op.vecType
        shape == op.type.shape
        passIncrements == IF inputType = "f16" THEN 4 ELSE 1
        head == <<Lowered("index_cast", "i32")>>
        loop(body) == ControlConstants
                        \o <<AffineForOp(0, op.type.threadTileSize, passIncrements,
                                         "opC", body)>>
    IN  IF inputType = "f16"
        THEN IF shape \in Shapes
             THEN {FragOutcome("success",
                      loop(head \o GatherAB(passIncrements)
                                \o Accumulate(shape, inputType)))}
             ELSE {FragOutcome("failure", loop(head \o GatherAB(passIncrements)))}
        ELSE IF inputType = "f32"
        THEN IF shape \in Shapes
             THEN {FragOutcome("success",
                      loop(head \o ExtractAB \o Accumulate(shape, inputType)))}
             ELSE {FragOutcome("failure", loop(head \o ExtractAB))}
        ELSE {FragOutcome("failure", loop(head))}

\* the conversion driver applies a pattern to the fragment op: on success
\* the ops the pattern created stand in its place, otherwise the driver
\* undoes them
ApplyFragmentPattern(pat, outcomes) ==
    /\ pc = "fragment"
    /\ \E o \in outcomes :
          /\ kernel' = IF o.result = "success" THEN o.created ELSE kernel
          /\ created' = o.created
          /\ last' = Applied(pat, 1, o.result)
    /\ pc' = "lowered"
    /\ UNCHANGED <<kernel0, blockSize, cloned, symVars, rt, req, pass, failed,
                   printVars, laneVars>>

LowerLoad ==
    /\ kernel[1].t = "mfma.load"
    /\ ApplyFragmentPattern("ValueMFMALoadOpToRocDLConversion",
                            ValueMFMALoadOpToRocDL(kernel[1]))

LowerStore ==
    /\ kernel[1].t = "mfma.store"
    /\ ApplyFragmentPattern("ValueMFMAStoreOpToRocDLConversion",
                            ValueMFMAStoreOpToRocDL(kernel[1]))

LowerCompute ==
    /\ kernel[1].t = "mfma.compute"
    /\ ApplyFragmentPattern("ValueMFMAComputeToRocDLConversion",
                            ValueMFMAComputeToRocDL(kernel[1]))

FragmentTypes ==
    {MFMAMatrixType(shape, operand, elementType, threadTileSize, numBlocks) :
        shape \in Shapes \cup {InvalidShape},
        operand \in Operands \cup {OtherOperand},
        elementType \in {"f16", "f32"},
        threadTileSize \in 1..MaxTile,
        numBlocks \in {1, 2, 4}}

FragmentInit ==
    /\ created = <<>> /\ lane = <<>> /\ trace = <<>>
    /\ kernel \in
          {<<FragmentOp("mfma.load", ty, "")>> : ty \in FragmentTypes}
          \cup UNION {{<<FragmentOp("mfma.store", ty, vecType)>> :
                          vecType \in {ty.elementType, "f32"}} :
                      ty \in {x \in FragmentTypes : x.operand = "COp"}}
          \cup {<<FragmentOp("mfma.compute", ty, vecType)>> :
                  ty \in {x \in FragmentTypes :
                             x.operand = "COp" /\ x.numBlocks = 1
                                 /\ x.elementType = "f32"},
                  vecType \in {"f16", "f32", "i8"}}
    /\ kernel0 = kernel
    /\ blockSize = <<>> /\ cloned = <<>>
    /\ NoSymbols
    /\ rt = "ROCM" /\ req = "ROCM" /\ pass = "ROCDL" /\ failed = FALSE
    /\ pc = "fragment"
    /\ last = NoRewrite
    /\ NoPrinter

FragmentNext ==
    \/ LowerLoad
    \/ LowerStore
    \/ LowerCompute

SpecFragment == FragmentInit /\ [][FragmentNext]_vars

----------------------------------------------------------------------------
(* A lane runs the loop a fragment pattern emitted.  The composed address   *)
(* map of the loop is evaluated as the pattern built it, from the warp size *)
(* (ResolveWarpSize), the leading dimension of the fragment type, the       *)
(* caller's access map and the map operands iElem, thread x, thread y and   *)
(* block dimension x.                                                       *)

\* largest thread coordinate of a lane
MaxThreadIdx == 3

\* getLeadingDim() of the fragment type, and warpSizeX * warpSizeY; no warp
\* is smaller than a leading dimension, so that warpStride is positive
LeadingDims == {16, 32}

WarpSizes == {32, 64}

\* the caller's access map (the op's map attribute), from the indices of the
\* op to the position <<d0, d1>> in the matrix
AccessMaps == {"identity", "transposed"}

Access(map, indices) ==
    IF map = "transposed" THEN <<indices[2], indices[1]>> ELSE indices

\* the value of a map one of whose expressions divides by zero
NoOffset == <<-1, -1>>

\* the divisors of the C layout: leadingDim (of m and ks), warpStride (a
\* factor of rowsPerSet) and setsPerCol (of the item group)
CLoadStoreDivisors(warpSize, leadingDim) ==
    LET subGroupSize == 4
        warpStride == warpSize \div leadingDim
        rowsPerSet == warpStride * subGroupSize
        setsPerCol == leadingDim \div rowsPerSet
    IN  <<leadingDim, warpStride, setsPerCol>>

\* the pair (row offset, column offset) at the values of the four symbols
GetRowColOffsetForCLoadStore(warpSize, leadingDim, iElem, threadIdxX, threadIdxY, blockDimX) ==
    LET subGroupSize == 4
        blockTid == threadIdxY * blockDimX + threadIdxX
        warpTid == blockTid % warpSize
        m == warpTid % leadingDim
        ks == warpTid \div leadingDim
        warpStride == warpSize \div leadingDim
        rowsPerSet == warpStride * subGroupSize
        setsPerCol == CLoadStoreDivisors(warpSize, leadingDim)[3]
        itemGroup == iElem \div subGroupSize
        itemOffset == iElem % subGroupSize
    IN  IF setsPerCol = 0
        THEN NoOffset
        ELSE <<ks * subGroupSize + (itemGroup % setsPerCol) * rowsPerSet
                   + itemOffset,
               m + (itemGroup \div setsPerCol) * leadingDim>>

\* the position p moved by an offset
Moved(p, off) ==
    IF off = NoOffset THEN NoOffset ELSE <<p[1] + off[1], p[2] + off[2]>>

\* (d0, d1)[sx, sy, sz] -> (d0 + m, d1 + ks)
offsetAOpMap(warpSize, leadingDim, d, threadIdxX, threadIdxY, blockDimX) ==
    LET warpTid == (threadIdxX + threadIdxY * blockDimX) % warpSize
    IN  <<d[1] + (warpTid % leadingDim), d[2] + (warpTid \div leadingDim)>>

\* a slip: the column strides from the second iteration
strideAOpMapFromOne(warpSize, leadingDim, d, iElem) ==
    <<d[1], d[2] + (iElem + 1) * (warpSize \div leadingDim)>>

\* (d0, d1)[s0] -> (d0, d1 + iElem * warpStride)
strideAOpMap(warpSize, leadingDim, d, iElem) ==
    <<d[1], d[2] + iElem * (warpSize \div leadingDim)>>

\* (d0, d1)[sx, sy, sz] -> (d0 + ks, d1 + m)
offsetBOpMap(warpSize, leadingDim, d, threadIdxX, threadIdxY, blockDimX) ==
    LET warpTid == (threadIdxX + threadIdxY * blockDimX) % warpSize
    IN  <<d[1] + (warpTid \div leadingDim), d[2] + (warpTid % leadingDim)>>

\* (d0, d1)[s0] -> (d0 + iElem * warpStride, d1)
strideBOpMap(warpSize, leadingDim, d, iElem) ==
    <<d[1] + iElem * (warpSize \div leadingDim), d[2]>>

\* the lane of a warp of a given size and leading dimension, at a position
Lane(threadIdxX, threadIdxY, blockDimX, warpSize, leadingDim, map, indices) ==
    [threadIdxX |-> threadIdxX, threadIdxY |-> threadIdxY,
     blockDimX |-> blockDimX, warpSize |-> warpSize,
     leadingDim |-> leadingDim, map |-> map, indices |-> indices]

\* composedMap of a load at its operands: the layout map of the role after
\* the access map, iElem being the induction variable
LoadAddress(ty, ln, iElem) ==
    LET d == Access(ln.map, ln.indices)
    IN  IF ty.operand = "COp"
        THEN Moved(d, GetRowColOffsetForCLoadStore(
                          ln.warpSize, ln.leadingDim \div ty.numBlocks, iElem,
                          ln.threadIdxX, ln.threadIdxY, ln.blockDimX))
        ELSE IF ty.operand = "AOp"
        THEN strideAOpMap(ln.warpSize, ln.leadingDim,
                 offsetAOpMap(ln.warpSize, ln.leadingDim, d, ln.threadIdxX,
                              ln.threadIdxY, ln.blockDimX),
                 iElem)
        ELSE strideBOpMap(ln.warpSize, ln.leadingDim,
                 offsetBOpMap(ln.warpSize, ln.leadingDim, d, ln.threadIdxX,
                              ln.threadIdxY, ln.blockDimX),
                 iElem)

\* a slip: the store takes the leading dimension of the whole tile
StoreAddressWholeTile(ty, ln, iElem) ==
    Moved(Access(ln.map, ln.indices),
          GetRowColOffsetForCLoadStore(
              ln.warpSize, ln.leadingDim, iElem,
              ln.threadIdxX, ln.threadIdxY, ln.blockDimX))

\* composedMap of a store at its operands
StoreAddress(ty, ln, iElem) ==
    Moved(Access(ln.map, ln.indices),
          GetRowColOffsetForCLoadStore(
              ln.warpSize, ln.leadingDim \div ty.numBlocks, iElem,
              ln.threadIdxX, ln.threadIdxY, ln.blockDimX))

\* the outer loop among the ops a pattern left in place of the fragment op
EmittedLoop(ops) ==
    ops[CHOOSE i \in 1..Len(ops) : ops[i].t = "affine.for"]

\* the inner loops of a loop body
InnerLoops(body) ==
    {body[i] : i \in {j \in 1..Len(body) : body[j].t = "affine.for"}}

\* the induction variable of the next iteration of the emitted loop
InductionVar == EmittedLoop(kernel).lb + Len(trace) * EmittedLoop(kernel).step

\* one iteration of the emitted loop, which addresses what
Iteration(t, what) ==
    /\ pc = "lowered" /\ last.result = "success"
    /\ kernel0[1].t = t
    /\ InductionVar < EmittedLoop(kernel).ub
    /\ trace' = Append(trace, what)
    /\ UNCHANGED <<irVars, symVars, passVars, last, printVars, created, lane>>

LoadIteration ==
    Iteration("mfma.load", LoadAddress(kernel0[1].type, lane, InductionVar))

StoreIteration ==
    Iteration("mfma.store", StoreAddress(kernel0[1].type, lane, InductionVar))

\* the positions of opA and opB an iteration of the compute loop extracts:
\* laneIndex, or iElem + laneIndex for every iElem of the loadAB loop
ExtractedAt(body, laneIndex) ==
    IF InnerLoops(body) = {}
    THEN {laneIndex}
    ELSE UNION {{iElem + laneIndex : iElem \in loadAB.lb..(loadAB.ub - 1)} :
                   loadAB \in InnerLoops(body)}

ComputeIteration ==
    Iteration("mfma.compute",
              ExtractedAt(EmittedLoop(kernel).body, InductionVar))

\* the fragment ops a lane runs: of one shape and element type, every role
\* and every thread tile
LaneOps ==
    LET types == {ty \in FragmentTypes :
                     /\ ty.shape = "T4x16x64" /\ ty.elementType = "f32"
                     /\ ty.operand \in Operands}
    IN  {FragmentOp("mfma.load", ty, "") : ty \in types}
        \cup {FragmentOp("mfma.store", ty, "f32") :
                ty \in {x \in types : x.operand = "COp"}}
        \cup {FragmentOp("mfma.compute", ty, vecType) :
                ty \in {x \in types : x.operand = "COp" /\ x.numBlocks = 1},
                vecType \in {"f16", "f32"}}

\* the pattern of a fragment op
FragmentPattern(op) ==
    IF op.t = "mfma.load" THEN ValueMFMALoadOpToRocDL(op)
    ELSE IF op.t = "mfma.store" THEN ValueMFMAStoreOpToRocDL(op)
    ELSE ValueMFMAComputeToRocDL(op)

Lanes ==
    {Lane(threadIdxX, threadIdxY, blockDimX, warpSize, leadingDim, map, indices) :
        threadIdxX \in 0..MaxThreadIdx, threadIdxY \in {0, 1},
        blockDimX \in {MaxThreadIdx + 1, 64},
        warpSize \in WarpSizes, leadingDim \in LeadingDims,
        map \in AccessMaps, indices \in {<<0, 0>>, <<16, 32>>}}

\* a fragment op has been lowered with success, and a lane enters the loop
LaneInit ==
    /\ \E op \in LaneOps :
          /\ kernel0 = <<op>>
          /\ \E o \in FragmentPattern(op) :
                /\ o.result = "success"
                /\ kernel = o.created /\ created = o.created
          /\ last = Applied("matchAndRewrite", 1, "success")
    /\ lane \in Lanes
    /\ trace = <<>>
    /\ blockSize = <<>> /\ cloned = <<>>
    /\ NoSymbols
    /\ rt = "ROCM" /\ req = "ROCM" /\ pass = "ROCDL" /\ failed = FALSE
    /\ pc = "lowered"
    /\ NoPrinter

LaneNext ==
    \/ LoadIteration
    \/ StoreIteration
    \/ ComputeIteration

SpecLane == LaneInit /\ [][LaneNext]_vars

----------------------------------------------------------------------------
(* Properties of the pairing pattern *)

PairApplied(l) == l.pat = "CreateDeviceFuncLauncherPairPattern"

LastOp(body) == body[Len(body)]

\* the launcher-pairing precondition, on the symbol tables fs and gs
PairPrecondition(fs, gs, h) ==
    /\ fs[h].hdr /\ fs[h].raw
    /\ Len(fs[h].body) = 1
    /\ fs[h].body[1].t = "call"
    /\ fs[h].body[1].a \in DOMAIN fs
    /\ ~fs[fs[h].body[1].a].decl
    /\ fs[fs[h].body[1].a].body # <<>>
    /\ LastOp(fs[fs[h].body[1].a].body).t = "launch"
    /\ LastOp(fs[fs[h].body[1].a].body).a \in DOMAIN gs
    /\ (h \o "__gpu__") \notin DOMAIN gs

\* C2: when the pairing pattern is applied to a host function that meets the
\* precondition, it pairs: the launched kernel then goes by the host name
\* followed by "__gpu__" (and no longer by its old name), the launch op names
\* it, the kernel carries the runtime, the GPU execution target, the
\* header-visibility and the raw-pointer attributes, and the host function
\* carries the runtime of the pipeline (ROCM for ROCm-class, CUDA for CUDA-class).
C2_PairingPostcondition ==
    [][(PairApplied(last') /\ PairPrecondition(funcs, gpufuncs, last'.at)) =>
        LET h == last'.at
            callee == funcs[h].body[1].a
            old == LastOp(funcs[callee].body).a
            new == h \o "__gpu__"
            runtime == IF pass = "ROCDL" THEN "ROCM" ELSE "CUDA"
        IN  /\ last'.result = "success"
            /\ DOMAIN gpufuncs' = (DOMAIN gpufuncs \ {old}) \cup {new}
            /\ LastOp(funcs'[callee].body) = LaunchFuncOp(new)
            /\ gpufuncs'[new].rt = runtime
            /\ gpufuncs'[new].target = "GPU"
            /\ gpufuncs'[new].hdr /\ gpufuncs'[new].raw
            /\ funcs'[h].rt = runtime
            /\ pass \in {"ROCDL", "NVVM"}]_vars

\* C2 witness: g was paired after f had been, through the same launcher
C2_Witness ==
    /\ PairApplied(last) /\ last.result = "success" /\ last.at = "g"
    /\ funcs["f"].rt # ""
    /\ funcs["g"].rt = "CUDA"
    /\ "g__gpu__" \in DOMAIN gpufuncs
    /\ LastOp(funcs[funcs["g"].body[1].a].body) = LaunchFuncOp("g__gpu__")

\* C11: when the pairing pattern is applied to a function that fails any of
\* the preconditions (a marker attribute is missing, the body is not a single
\* call, the callee is unresolved or a declaration, the callee body holds only
\* its terminator or does not end with a launch, the kernel is unresolved, the
\* suffixed name exists), it reports failure, does not crash, and leaves both
\* symbol tables as they were.
C11_SilentNonMatch ==
    [][(PairApplied(last') /\ ~PairPrecondition(funcs, gpufuncs, last'.at)) =>
        /\ last'.result = "failure"
        /\ funcs' = funcs
        /\ gpufuncs' = gpufuncs]_vars

----------------------------------------------------------------------------
\* C24: once a host function has been paired (it carries the runtime the
\* pattern gave it), every further application of the pairing pattern to it
\* reports failure and leaves both symbol tables as they were.
C24_PairsAtMostOnce ==
    [][(PairApplied(last') /\ funcs[last'.at].rt # "") =>
        /\ last'.result = "failure"
        /\ funcs' = funcs
        /\ gpufuncs' = gpufuncs]_vars

\* the launch ops of the module
LaunchSites(fs) ==
    UNION {{fs[n].body[i] : i \in 1..Len(fs[n].body)} : n \in DOMAIN fs}

\* C27: in a module whose launch ops all named a kernel of the gpu.module at
\* the start, every launch op names a kernel of the gpu.module after any
\* number of pairings.
C27_LaunchSitesResolve ==
    LaunchFuncOp("z") \notin LaunchSites(funcs) =>
        \A s \in LaunchSites(funcs) :
            s.t = "launch" => s.a \in DOMAIN gpufuncs

----------------------------------------------------------------------------
(* Properties of pass selection and of the pipelines *)

\* the pipeline serves the runtime the module resolves to
Matching ==
    \/ pass = "ROCDL" /\ rt = "ROCM"
    \/ pass = "NVVM" /\ rt = "CUDA"
    \/ pass = "SPIRV" /\ rt = "VULKAN"

\* the ops of the kernel the conversion was run on
LoweredKernel == IF pass = "SPIRV" THEN cloned[1] ELSE kernel

IsAbstract(tok) ==
    tok.t \in {"barrier", "gpu.block_dim", "mfma.load", "mfma.store",
               "mfma.constant", "mfma.compute"}

CountIf(m, P(_)) == Cardinality({i \in 1..Len(m) : P(m[i])})

\* C4: after a run of the pipeline on a module of its runtime that did not
\* signal pass failure, the lowered kernel holds no abstract barrier, no
\* block-dimension query and no fragment load, store, constant or compute op.
C4_NoResidualOps ==
    (pc = "done" /\ Matching /\ ~failed) => CountIf(LoweredKernel, IsAbstract) = 0

\* the step that runs the full conversion to its end
ConversionStep == pc = "convert" /\ pc' = "done"

\* the ops the conversion leaves, when the step is a conversion step
Converted == IF pass = "SPIRV" THEN cloned'[1] ELSE kernel'

HasScope(scope) == \E i \in Barriers(kernel) : kernel[i].a = scope

IsBlockScope(tok) == tok.t = "barrier" /\ tok.a = "Block"

IsWarpScope(tok) == tok.t = "barrier" /\ tok.a = "Warp"

IsThreadfenceScope(tok) == tok.t = "barrier" /\ tok.a = "Threadfence"

\* the block barrier of the backend: gpu.barrier, or a control barrier of
\* workgroup scope
IsBlockBarrier(tok) ==
    \/ pass \in {"ROCDL", "NVVM"} /\ tok.t = "gpu.barrier"
    \/ pass = "SPIRV" /\ tok.t = "spv.ControlBarrier"
          /\ tok.a = "Workgroup Workgroup AcquireRelease"

\* a control barrier of subgroup scope with subgroup memory ordering
IsSubgroupBarrier(tok) ==
    tok.t = "spv.ControlBarrier"
        /\ tok.a = "Subgroup Subgroup AcquireRelease|SubgroupMemory"

\* a sequentially consistent fence of agent scope
IsDeviceFence(tok) == tok.t = "llvm.fence" /\ tok.a = "seq_cst agent"

IsBarrier(tok) == tok.t = "barrier"

\* C5 as claimed: in every pipeline the conversion of a kernel of barriers
\* replaces each block-scope barrier by the backend block barrier, each
\* warp-scope barrier by the backend subgroup barrier and each
\* threadfence-scope barrier by a device-wide fence.
C5_EveryScopeInEveryPipeline ==
    [][(ConversionStep /\ \A i \in 1..Len(kernel) : kernel[i].t = "barrier") =>
        /\ ~failed'
        /\ CountIf(Converted, IsBlockBarrier) = CountIf(kernel, IsBlockScope)
        /\ CountIf(Converted, IsSubgroupBarrier) = CountIf(kernel, IsWarpScope)
        /\ CountIf(Converted, IsDeviceFence) = CountIf(kernel, IsThreadfenceScope)]_vars

\* C5 as amended: a conversion that succeeds leaves no abstract barrier and has
\* replaced each block-scope barrier by the backend block barrier, and, in
\* the SPIR-V-class pipeline, each warp-scope barrier by a subgroup barrier
\* with subgroup memory ordering, in the ROCm- and CUDA-class pipelines each
\* threadfence-scope barrier by a device-wide fence; a barrier of the scope
\* the pipeline does not handle (threadfence in SPIR-V-class, warp in the two
\* others) is not replaced and the failure is reported.
C5_ScopesPerPipeline ==
    [][ConversionStep =>
        /\ HasScope(IF pass = "SPIRV" THEN "Threadfence" ELSE "Warp") =>
              failed' /\ Converted = kernel
        /\ ~failed' =>
              /\ CountIf(Converted, IsBarrier) = 0
              /\ CountIf(Converted, IsBlockBarrier) = CountIf(kernel, IsBlockScope)
              /\ pass = "SPIRV" =>
                    /\ CountIf(Converted, IsSubgroupBarrier) = CountIf(kernel, IsWarpScope)
                    /\ CountIf(Converted, IsDeviceFence) = 0
              /\ pass \in {"ROCDL", "NVVM"} =>
                    /\ CountIf(Converted, IsDeviceFence)
                          = CountIf(kernel, IsThreadfenceScope)
                    /\ CountIf(Converted, IsSubgroupBarrier) = 0]_vars

\* C5 witness: the ROCm-class conversion has lowered a block-scope and a
\* threadfence-scope barrier
C5_Witness ==
    /\ pc = "done" /\ pass = "ROCDL" /\ Matching /\ ~failed
    /\ CountIf(kernel0, IsBlockScope) = 1
    /\ CountIf(kernel0, IsThreadfenceScope) = 1
    /\ CountIf(kernel, IsBlockBarrier) = 1
    /\ CountIf(kernel, IsDeviceFence) = 1

\* the value a query printed: the last piece of its declaration
PrintedValue == os[Len(os)]

\* C3: in a kernel whose blockSize attribute gives the bound B on an axis of
\* x, y, z, a thread-id query on that axis prints (threadIdx.<axis>%B), and a
\* block-dimension query becomes the literal B: by ResolveBlockDimPattern in
\* a gpu.func, by the printer in a FuncOp.
C3_StaticBlockSize ==
    (/\ pc = "printed" /\ last.result = "success"
     /\ pin.blockSize # <<>>
     /\ dimIndexToInteger(pin.dimension) # -1) =>
        LET B == pin.blockSize[dimIndexToInteger(pin.dimension) + 1]
        IN  /\ pin.op = "gpu.thread_id" =>
                  PrintedValue
                      = "(threadIdx." \o pin.dimension \o "%" \o ToString(B) \o ")"
            /\ pin.op = "gpu.block_dim" =>
                  IF pin.parent = "GPUFuncOp"
                  THEN ResolveBlockDim(BlockDimOp(pin.dimension), pin.blockSize)
                           = Match(<<ConstantIndexOp(B)>>)
                  ELSE PrintedValue = ToString(B)

\* C6: a block-dimension query in a kernel that has no blockSize attribute
\* stays a raw read of the hardware register, and the run of the ROCm- or
\* CUDA-class pipeline on a kernel of such queries signals no failure.
C6_NoSizeNoFailure ==
    (/\ pc = "done" /\ Matching /\ pass \in {"ROCDL", "NVVM"}
     /\ blockSize = <<>>
     /\ kernel0 # <<>>
     /\ \A i \in 1..Len(kernel0) : kernel0[i].t = "gpu.block_dim") =>
        (~failed /\ kernel = kernel0)

\* the order of the steps in the ROCm- and CUDA-class pipelines
FourSteps ==
    /\ pc = "run" => pc' = "hoist"
    /\ pc = "hoist" => pc' \in {"hoist", "pair"}
    /\ (pc = "hoist" /\ pc' = "pair") => NoBarrierInIf(kernel)
    /\ pc = "pair" => pc' \in {"pair", "convert"}
    /\ (pc = "pair" /\ pc' = "convert") => ~CanPair
    /\ pc = "convert" => (pc' \in {"done", "aborted"}
                            /\ last'.pat = "applyFullConversion")

\* C19 as claimed: in each of the three pipelines, on a module of its
\* runtime, runtime resolution is followed by hoisting over the whole kernel,
\* hoisting by pairing over all functions, pairing by the full conversion.
C19_FourStepsInEveryPipeline == [][Matching => FourSteps]_vars

\* C19 as amended: the ROCm- and CUDA-class pipelines run the four steps in
\* that order; the SPIR-V-class pipeline has no pairing step, its hoisting is
\* followed by the full conversion (of clones of the kernel modules), and it
\* leaves the functions and kernel names as they were.
C19_StepsPerPipeline ==
    [][Matching =>
        IF pass \in {"ROCDL", "NVVM"}
        THEN FourSteps
        ELSE /\ pc = "run" => pc' = "hoist"
             /\ pc = "hoist" => pc' \in {"hoist", "convert"}
             /\ (pc = "hoist" /\ pc' = "convert") => NoBarrierInIf(kernel)
             /\ pc = "convert" => (pc' = "done" /\ last'.pat = "applyFullConversion")
             /\ <<funcs, gpufuncs>>' = <<funcs, gpufuncs>>]_vars

\* C19 witness: the SPIR-V-class pipeline has finished on a Vulkan module whose
\* host function still meets the pairing precondition
C19_Witness ==
    /\ pc = "done" /\ pass = "SPIRV" /\ Matching
    /\ PairPrecondition(funcs, gpufuncs, "f")
    /\ last.pat = "applyFullConversion"

\* C20: in every pipeline a full conversion that fails signals pass failure,
\* and one that succeeds does not; whatever the greedy driver reports for the
\* hoisting or the pairing pre-pass (failure when it did not converge), no
\* pass failure is signalled there and the next step is run.
C20_OnlyConversionFails ==
    [][Matching =>
        /\ ConversionStep =>
              /\ last'.pat = "applyFullConversion"
              /\ failed' <=> last'.result = "failure"
        /\ pc \in {"run", "hoist", "pair"} => ~failed'
        /\ (pc \in {"hoist", "pair"}
                /\ last'.pat = "applyPatternsAndFoldGreedily") =>
              pc' = (IF pc = "pair" \/ pass = "SPIRV" THEN "convert" ELSE "pair")]_vars

\* C20 witness: the greedy driver reported failure for the hoisting pre-pass
\* and the pipeline is at its pairing step, no failure signalled
C20_Witness ==
    /\ pc = "pair" /\ Matching /\ ~failed
    /\ last = Applied("applyPatternsAndFoldGreedily", 0, "failure")
    /\ kernel # kernel0

\* C7: the selection entry point yields the ROCm-class pipeline for ROCM, the
\* CUDA-class pipeline for CUDA, the SPIR-V-class pipeline for VULKAN, no
\* pipeline for NONE, OPENMP and unrecognized values, and never more than one.
C7_SelectionTable ==
    pc # "create" =>
        /\ req = "ROCM" => pass = "ROCDL"
        /\ req = "CUDA" => pass = "NVVM"
        /\ req = "VULKAN" => pass = "SPIRV"
        /\ req \in {"NONE", "OPENMP", "UNRECOGNIZED"} => pass = "null"
        /\ pass \in {"ROCDL", "NVVM", "SPIRV", "null"}
        /\ pc = "skipped" <=> pass = "null"

\* C7 witness: OPENMP was requested and GPU lowering is skipped
C7_Witness == pc = "skipped" /\ req = "OPENMP" /\ pass = "null"

\* what a pipeline can change
Module == <<kernel, blockSize, cloned, funcs, gpufuncs>>

\* C8: run on a module that has no GPU runtime, or one that resolves to
\* another runtime than the pipeline serves, the pipeline returns at once:
\* the module is as it was and no pass failure is signalled.
C8_MismatchIsNoOp ==
    [][(pc = "run" /\ ~Matching) =>
        (pc' = "done" /\ Module' = Module /\ ~failed')]_vars

\* C8 witness: the ROCm-class pipeline has returned from a CUDA module whose
\* kernel holds a barrier inside a conditional and whose host function
\* meets the pairing precondition
C8_Witness ==
    /\ pc = "done" /\ pass = "ROCDL" /\ rt = "CUDA"
    /\ BarriersInIf(kernel) # {}
    /\ PairPrecondition(funcs, gpufuncs, "f")
    /\ kernel = kernel0 /\ ~failed

----------------------------------------------------------------------------
(* Properties of the hoisting rewrite *)

\* the conditionals that no other conditional encloses
TopIfs(m) == {p \in 1..Len(m) : m[p].t = "if" /\ Ancestors(m, p) = {}}

\* the rewrite never adds, drops or reorders conditionals, so the j-th
\* outermost conditional of the rewritten kernel is the j-th of the original
Rank(m, p) == Cardinality({r \in TopIfs(m) : r <= p})

InsideIf(m, p) == {i \in Barriers(m) : p < i /\ i < RegionEnd(m, p)}

HeldBarriers(p) ==
    \E p0 \in TopIfs(kernel0) :
        Rank(kernel0, p0) = Rank(kernel, p) /\ InsideIf(kernel0, p0) # {}

\* the clones in the run of barriers that ends right before the conditional
ClonesBefore(m, p) ==
    {i \in 1..(p - 1) :
        m[i].c = "before" /\ \A k \in i..(p - 1) : m[k].t = "barrier"}

\* the clones in the run of barriers that starts right after the conditional
ClonesAfter(m, p) ==
    {i \in (RegionEnd(m, p) + 1)..Len(m) :
        m[i].c = "after" /\ \A k \in (RegionEnd(m, p) + 1)..i : m[k].t = "barrier"}

\* C1: once no barrier has a conditional ancestor, every outermost
\* conditional that held barriers has exactly one barrier clone right before
\* it, exactly one right after it, and no barrier inside, however many
\* barriers it held.
C1_OneCloneEachSide ==
    NoBarrierInIf(kernel) =>
        \A p \in TopIfs(kernel) :
            HeldBarriers(p) =>
                /\ Cardinality(ClonesBefore(kernel, p)) = 1
                /\ Cardinality(ClonesAfter(kernel, p)) = 1
                /\ InsideIf(kernel, p) = {}

\* C9: applying the hoisting rewrite to a kernel in which no barrier has a
\* conditional ancestor leaves the kernel as it was.
C9_HoistedIsFixpoint == [][NoBarrierInIf(kernel) => kernel' = kernel]_vars

\* C9 witness: the pattern was just applied to a hoisted clone that sits
\* before a conditional (an application that hoists leaves, at the position
\* it was applied to, an op of the conditional, never a clone)
C9_Witness ==
    /\ NoBarrierInIf(kernel)
    /\ kernel # kernel0
    /\ last.pat = "ConditionalBarrierHoistingPattern"
    /\ last.at \in Barriers(kernel)
    /\ kernel[last.at].c = "before"

\* the kernel after hoisting the leftmost barrier that has a conditional
\* ancestor, again and again, until there is none
RECURSIVE HoistAll(_)
HoistAll(m) ==
    IF NoBarrierInIf(m) THEN m ELSE HoistAll(HoistRewrite(m, Min(BarriersInIf(m))))

\* C10 as claimed: whatever the order of the applications, the kernel in which
\* none applies any more is the same, barrier scopes in the same sequence.
C10_Confluent == NoBarrierInIf(kernel) => kernel = HoistAll(kernel0)

\* first position of the run of adjacent barriers that position i is in
RunStart(m, i) == Min({j \in 1..i : \A k \in j..i : m[k].t = "barrier"})

\* equal but for the order of the barriers within each run of adjacent barriers
SameUpToRunOrder(m1, m2) ==
    /\ Len(m1) = Len(m2)
    /\ \A i \in 1..Len(m1) :
          IF m1[i].t = "barrier"
          THEN /\ m2[i].t = "barrier"
               /\ Cardinality({j \in Barriers(m1) :
                        RunStart(m1, j) = RunStart(m1, i) /\ m1[j] = m1[i]})
                  = Cardinality({j \in Barriers(m2) :
                        RunStart(m2, j) = RunStart(m1, i) /\ m2[j] = m1[i]})
          ELSE m2[i] = m1[i]

\* C10 as amended: whatever the order of the applications, the kernels in
\* which none applies any more have the same ops in the same places, but for
\* the order of the barriers within a run of adjacent barriers.
C10_ConfluentUpToRunOrder ==
    NoBarrierInIf(kernel) => SameUpToRunOrder(HoistAll(kernel0), kernel)

\* C10 witness: a conditional held barriers of two scopes, they were hoisted
\* rightmost first, and the result differs from the leftmost-first result
C10_Witness ==
    /\ NoBarrierInIf(kernel)
    /\ kernel # HoistAll(kernel0)
    /\ \E p \in TopIfs(kernel0) :
          \E i, j \in InsideIf(kernel0, p) : kernel0[i].a # kernel0[j].a

----------------------------------------------------------------------------
\* C23: an application of the hoisting rewrite to a barrier inside a
\* conditional adds exactly one barrier to the module and leaves exactly one
\* barrier fewer inside conditionals; an application to any other barrier
\* changes nothing.  So the module has changed as many times as barriers
\* have left the conditionals, and once that is the number of barriers that
\* were inside conditionals at the start, no application changes the module.
C23_HoistCounts ==
    [][LET all(m) == Cardinality(Barriers(m))
           inIf(m) == Cardinality(BarriersInIf(m))
       IN  /\ IF last'.at \in BarriersInIf(kernel)
              THEN /\ kernel' # kernel
                   /\ all(kernel') = all(kernel) + 1
                   /\ inIf(kernel') = inIf(kernel) - 1
              ELSE kernel' = kernel
           /\ all(kernel') - all(kernel0) = inIf(kernel0) - inIf(kernel')
           /\ all(kernel') - all(kernel0) = inIf(kernel0) =>
                 \A i \in Barriers(kernel') : HoistRewrite(kernel', i) = kernel']_vars

\* C23 witness: two barriers were inside conditionals, a third was not, and
\* after two changes of the module none is inside a conditional
C23_Witness ==
    /\ Cardinality(BarriersInIf(kernel0)) = 2
    /\ Cardinality(Barriers(kernel0)) = 3
    /\ Cardinality(Barriers(kernel)) = Cardinality(Barriers(kernel0)) + 2
    /\ NoBarrierInIf(kernel)
    /\ last.pat = "ConditionalBarrierHoistingPattern"

----------------------------------------------------------------------------
(* Properties of runtime resolution *)

\* the gpu modules the printer cannot resolve to a runtime it supports
Offending(mods, values) == {i \in 1..Len(mods) : mods[i] \in values}

\* the pipeline is past its runtime test
Tested == pc \in {"hoist", "done"}

\* for the printer: failure is returned at the first module whose runtime is
\* missing or one of values, and no module after it is resolved
PrinterRejects(values) ==
    (Resolved /\ Offending(gpuModuleOps, values) # {}) =>
        /\ last.result = "failure"
        /\ last.at < Min(Offending(gpuModuleOps, values))
        /\ os # <<>>

\* C12 as claimed: a module whose runtime is missing or resolves to OpenMP,
\* Vulkan or None makes runtime resolution report a failure, and nothing
\* further is done for the module -- in the printer and in the pipelines.
C12_UnsupportedRuntimeFails ==
    /\ PrinterRejects({"", "OPENMP", "VULKAN", "NONE"})
    /\ (Tested /\ rt \in {"", "OPENMP", "VULKAN", "NONE"}) => (failed /\ ~Lowering)

\* C12 as amended: the printer's resolution returns failure at the first gpu
\* module whose runtime is missing or resolves to OpenMP, Vulkan, None or
\* Default, and resolves no module after it.  A pipeline run on a module
\* whose runtime is missing, None or OpenMP does not lower it and signals no
\* failure; a Vulkan module is lowered by the SPIR-V-class pipeline and left
\* alone, without failure, by the two others.
C12_PrinterRejectsPipelineSkips ==
    /\ PrinterRejects({"", "OPENMP", "VULKAN", "NONE", "DEFAULT"})
    /\ (Tested /\ rt \in {"", "OPENMP", "NONE"}) => (~failed /\ ~Lowering)
    /\ (Tested /\ rt = "VULKAN") => (~failed /\ (Lowering <=> pass = "SPIRV"))

\* C12 witness: the printer has failed on a Vulkan module that follows a CUDA
\* module, and the SPIR-V-class pipeline lowers the Vulkan module
C12_Witness ==
    /\ Resolved /\ last = Applied("runPrePrintingPasses", 1, "failure")
    /\ gpuModuleOps = <<"CUDA", "VULKAN", "ROCM">>
    /\ runtimes = {"CUDA"}
    /\ rt = "VULKAN" /\ pass = "SPIRV" /\ Lowering

\* the pattern sets, by pattern name
ROCDLPatterns ==
    {"ResolveBlockDimPattern", "EarlyReturnToGPUReturnPattern",
     "ValueBarrierToGPUBarrierConversion", "ValueMFMALoadOpToRocDLConversion",
     "ValueMFMAComputeToRocDLConversion", "ValueMFMAStoreOpToRocDLConversion",
     "ValueMFMAConstantOpToRocDLConversion"}

NVVMPatterns ==
    {"ResolveBlockDimPattern", "EarlyReturnToGPUReturnPattern",
     "ValueBarrierToGPUBarrierConversion", "ValueMFMALoadOpToGPUConversion",
     "ValueMFMAComputeToGPUConversion", "ValueMFMAStoreOpToGPUConversion",
     "ValueMFMAConstantOpToGPUConversion"}

IsFragmentOp(tok) ==
    tok.t \in {"mfma.load", "mfma.store", "mfma.constant", "mfma.compute"}

\* C13: after the printer's resolution the ROCm runtime is set only together
\* with the CUDA runtime, and is not set when every resolved module is a CUDA
\* module; the ROCm-class and the CUDA-class pattern sets differ in their four
\* fragment patterns only, and lower every other op alike.
C13_RocmImpliesCuda ==
    /\ Resolved =>
          /\ "ROCM" \in runtimes => "CUDA" \in runtimes
          /\ (\A i \in 1..last.at : gpuModuleOps[i] = "CUDA") => "ROCM" \notin runtimes
    /\ Cardinality(ROCDLPatterns \ NVVMPatterns) = 4
    /\ Cardinality(NVVMPatterns \ ROCDLPatterns) = 4
    /\ \A n \in (ROCDLPatterns \ NVVMPatterns) \cup (NVVMPatterns \ ROCDLPatterns) :
          \E k \in {"Load", "Compute", "Store", "Constant"}, b \in {"RocDL", "GPU"} :
              n = "ValueMFMA" \o k \o (IF k = "Compute" THEN "" ELSE "Op") \o "To"
                      \o b \o "Conversion"
    /\ \A tok \in PipeOps, bs \in BlockSizes :
          ~IsFragmentOp(tok) => LowerROCDL(tok, bs) = LowerNVVM(tok, bs)

\* C13 witness: a ROCm module was resolved after a CUDA module, and both
\* runtimes are set
C13_Witness ==
    /\ Resolved /\ last.result = "success"
    /\ gpuModuleOps = <<"CUDA", "ROCM">>
    /\ runtimes = {"CUDA", "ROCM"}

----------------------------------------------------------------------------
(* Properties of the fragment lowering *)

\* the fragment op the pattern was applied to
Root == kernel0[1]

LoweredOp(t) == pc = "lowered" /\ Root.t = t

Rejected == last.result = "failure" /\ kernel = kernel0

\* the loops among the ops a pattern left
Loops(ops) == {i \in 1..Len(ops) : ops[i].t = "affine.for"}

\* the ops of kind t in the body of the loop the pattern emitted
InLoop(t) ==
    LET loop == kernel[Len(kernel)]
    IN  {i \in 1..Len(loop.body) : loop.body[i].t = t}

\* C14: a fragment load or store whose fragment type fails the shape validity
\* predicate is rejected with a match failure, and the pattern has by then
\* created no op: no address operand, no loop; the op stays as it was.
C14_InvalidShapeRejectedFirst ==
    ((LoweredOp("mfma.load") \/ LoweredOp("mfma.store"))
        /\ ~isValidShape(Root.type)) =>
            (Rejected /\ created = <<>>)

\* C14 witness: a store of a fragment of no supported shape was rejected
C14_Witness ==
    /\ LoweredOp("mfma.store") /\ Root.type.shape = InvalidShape
    /\ Rejected /\ created = <<>>

\* C15: a fragment load whose operand role is none of A, B, C ends in a
\* reported match failure: no crash, and no load loop emitted.
C15_UnknownRoleRejected ==
    (LoweredOp("mfma.load") /\ Root.type.operand \notin Operands) =>
        (last.result = "failure" /\ Loops(created) = {} /\ Loops(kernel) = {})

C17_ComputeLoop ==
    LoweredOp("mfma.compute") =>
        IF Root.vecType \in {"f16", "f32"} /\ Root.type.shape \in Shapes
        THEN LET loop == kernel[Len(kernel)]
                 body == loop.body
             IN  /\ last.result = "success"
                 /\ Cardinality(Loops(kernel)) = 1
                 /\ loop.t = "affine.for"
                 /\ loop.lb = 0 /\ loop.ub = Root.type.threadTileSize
                 /\ loop.step = (IF Root.vecType = "f16" THEN 4 ELSE 1)
                 /\ loop.init = "opC"
                 /\ Cardinality(InLoop("rocdl")) = 1
                 /\ \A i \in InLoop("rocdl") :
                       /\ body[i].acc = "matD"
                       /\ body[i].a = Intrinsic(Root.type.shape, Root.vecType)
                       /\ body[Len(body)] = Lowered("affine.yield", body[i].a)
                 /\ Cardinality({Intrinsic(sh, ty) :
                                    sh \in Shapes, ty \in {"f16", "f32"}}) = 8
        ELSE Rejected

\* C17 witness: an f16 compute of shape T4x4x32 over a thread tile of 8 was
\* lowered to a loop with step 4
C17_Witness ==
    /\ LoweredOp("mfma.compute") /\ Root.vecType = "f16"
    /\ Root.type.shape = "T4x4x32" /\ Root.type.threadTileSize = 8
    /\ last.result = "success"
    /\ kernel[Len(kernel)].step = 4

\* C18: a lowered load extends each element to f32 exactly when the fragment
\* is f16 and the role is C; a lowered store truncates each element to f16
\* exactly when the stored vector is f32 and the fragment is f16, and the
\* element it writes has the element type of the fragment.
C18_PrecisionAdaptation ==
    /\ (LoweredOp("mfma.load") /\ last.result = "success"
            /\ Root.type.operand \in Operands) =>
          (InLoop("fpext") # {}
              <=> (Root.type.elementType = "f16" /\ Root.type.operand = "COp"))
    /\ (LoweredOp("mfma.store") /\ last.result = "success") =>
          /\ InLoop("fptrunc") # {}
                <=> (Root.vecType = "f32" /\ Root.type.elementType = "f16")
          /\ Cardinality(InLoop("memref.store")) = 1
          /\ \A i \in InLoop("memref.store") :
                kernel[Len(kernel)].body[i].a = Root.type.elementType

\* C18 witness: an f32 vector was stored through an f16 fragment, truncated
C18_Witness ==
    /\ LoweredOp("mfma.store") /\ last.result = "success"
    /\ Root.vecType = "f32" /\ Root.type.elementType = "f16"
    /\ InLoop("fptrunc") # {}

----------------------------------------------------------------------------
(* Properties of the printer *)

\* C21: in a kernel whose gridSize attribute gives the bound G on an axis of
\* x, y, z, a block-id query on that axis prints (blockIdx.<axis>%G): the
\* modulus is the grid-size bound of the kernel, not its block-size bound.
C21_StaticGridSize ==
    (/\ pc = "printed" /\ last.result = "success"
     /\ pin.op = "gpu.block_id"
     /\ pin.gridSize # <<>>
     /\ dimIndexToInteger(pin.dimension) # -1) =>
        LET G == pin.gridSize[dimIndexToInteger(pin.dimension) + 1]
        IN  PrintedValue
                = "(blockIdx." \o pin.dimension \o "%" \o ToString(G) \o ")"

\* C25: when printOp fails on the op printDialectOperation dispatched (a
\* barrier or an index query without the CUDA runtime, a gpu.func of more
\* than one block), printDialectOperation returns failure, and it returns
\* success when printOp succeeded.
C25_FailurePropagates ==
    [][(pc = "printed" /\ pc' = "dispatched") =>
        last'.result = last.result]_vars

----------------------------------------------------------------------------
(* Properties of the fragment addresses *)

Position == Access(lane.map, lane.indices)

\* C22: a load of the A operand by the lane with thread x = 0 and thread
\* y = 0 addresses, in iteration 0, the position the access map gives:
\* offset (0, 0), whatever the warp size, the leading dimension and the
\* block dimension x.
C22_AOriginAtLaneZero ==
    (/\ kernel0[1].t = "mfma.load" /\ kernel0[1].type.operand = "AOp"
     /\ lane.threadIdxX = 0 /\ lane.threadIdxY = 0
     /\ Len(trace) >= 1) =>
        trace[1] = Position

\* C22 witness: such a lane has run iteration 0 away from the origin of the
\* matrix, under a transposed access map
C22_Witness ==
    /\ kernel0[1].t = "mfma.load" /\ kernel0[1].type.operand = "AOp"
    /\ lane.threadIdxX = 0 /\ lane.threadIdxY = 0
    /\ lane.map = "transposed" /\ lane.indices = <<16, 32>>
    /\ Len(trace) >= 1 /\ trace[1] = <<32, 16>>

\* the loops the load pattern emits for the C operand of a fragment type
CLoadLoops(ty) ==
    {EmittedLoop(o.created) :
        o \in {x \in ValueMFMALoadOpToRocDL(
                        FragmentOp("mfma.load",
                                   [ty EXCEPT !.operand = "COp"], "")) :
                  x.result = "success"}}

\* C26: the loop of a store runs the iterations 0 .. (thread tile size /
\* sub-blocks) - 1, as does the loop of a load of the C operand of the same
\* fragment type, and in every iteration the store addresses what that load
\* addresses for the same lane, warp size and block dimension x.
C26_StoreAddressesAsCLoad ==
    kernel0[1].t = "mfma.store" =>
        LET ty == kernel0[1].type
            loop == EmittedLoop(kernel)
            tripCount == ty.threadTileSize \div ty.numBlocks
        IN  /\ loop.lb = 0 /\ loop.step = 1 /\ loop.ub = tripCount
            /\ CLoadLoops(ty) # {}
            /\ \A l \in CLoadLoops(ty) :
                  l.lb = 0 /\ l.step = 1 /\ l.ub = tripCount
            /\ Len(trace) <= tripCount
            /\ \A i \in 1..Len(trace) :
                  trace[i] = LoadAddress([ty EXCEPT !.operand = "COp"], lane, i - 1)

\* C26 witness: a lane other than lane 0 has run every iteration of a store
\* of a fragment of two sub-blocks, at defined addresses
C26_Witness ==
    /\ kernel0[1].t = "mfma.store"
    /\ kernel0[1].type.numBlocks = 2 /\ kernel0[1].type.threadTileSize = 8
    /\ lane.threadIdxX = 3 /\ lane.threadIdxY = 1
    /\ Len(trace) = 4
    /\ \A i \in 1..4 : trace[i] # NoOffset

\* the offsets the lanes of one warp address over the emitted loop range
WarpOffsets(ty, loop) ==
    {LoadAddress(ty, Lane(l, 0, lane.warpSize, lane.warpSize, lane.leadingDim,
                          lane.map, lane.indices), i) :
        l \in 0..(lane.warpSize - 1), i \in loop.lb..(loop.ub - 1)}

\* C28: when the warp size is a multiple of the leading dimension, the
\* (lane of the warp, iteration) pairs of a load loop address pairwise
\* different positions, for the A, the B and the C operand.
C28_LayoutInjective ==
    (kernel0[1].t = "mfma.load" /\ trace = <<>>
        /\ lane.warpSize % lane.leadingDim = 0) =>
        LET loop == EmittedLoop(kernel)
            offsets == WarpOffsets(kernel0[1].type, loop)
        IN  /\ NoOffset \notin offsets
            /\ Cardinality(offsets) = lane.warpSize * (loop.ub - loop.lb)

\* C29: for a load or store of the C operand that was lowered, the leading
\* dimension per sub-block, the warp stride and the number of sets per
\* column are all positive.
C29_PositiveDivisors ==
    (kernel0[1].t \in {"mfma.load", "mfma.store"}
        /\ kernel0[1].type.operand = "COp") =>
        LET d == CLoadStoreDivisors(lane.warpSize,
                     lane.leadingDim \div kernel0[1].type.numBlocks)
        IN  d[1] > 0 /\ d[2] > 0 /\ d[3] > 0

\* C30: every position of opA and opB an iteration of the compute loop
\* extracts lies in 0 .. thread tile size - 1.
C30_ExtractInRange ==
    kernel0[1].t = "mfma.compute" =>
        \A i \in 1..Len(trace) :
            \A pos \in trace[i] :
                0 <= pos /\ pos < kernel0[1].type.threadTileSize

====
